---- MODULE Spec2Model ----
(***************************************************************************)
(* Inpatient stay lifecycle of healthcare/doctype/inpatient_record:        *)
(* scheduling, admission, transfer, discharge scheduling, discharge and    *)
(* cancellation of Inpatient Records, their Inpatient Occupancy rows, the  *)
(* occupancy_status of Healthcare Service Units and the Patient linkage.   *)
(*                                                                         *)
(* Every whitelisted handler is one request. A request that raises         *)
(* (frappe.throw) leaves the database as it was when the request started;  *)
(* a request that returns commits all its writes together.                 *)
(***************************************************************************)
EXTENDS Integers, Sequences, FiniteSets, TLC

VARIABLES
  stay,        \* `tabInpatient Record`: stay id -> document ("None" = not inserted)
  unit,        \* `tabHealthcare Service Unit`.occupancy_status
  patient,     \* `tabPatient`: inpatient_record / inpatient_status
  enc,         \* admission encounter of each stay: inpatient_record / inpatient_status
  counselling, \* number of Treatment Counselling records created
  now,         \* now_datetime() / today()
  last,        \* what the last request was and how it ended
  req,         \* requests in flight (validated, not yet written)
  quote        \* an occupancy offered for invoicing: its hours and its qty

vars == <<stay, unit, patient, enc, counselling, now, last, req, quote>>

----------------------------------------------------------------------------
(* Bounds and domains *)

MaxStays == 2   \* Inpatient Records ever inserted
MaxRows == 1    \* occupancy rows of a stay when several stays are followed
MaxOcc == 3     \* occupancy rows of the stay when one stay is followed
MaxTime == 1    \* the last instant of the clock
MaxMoves == 2   \* occupancy rows of the stay when the clock runs
MaxBillTime == 2 \* the last instant of the clock when billing is followed
MaxItems == 3   \* line items of the stay when billing is followed
MaxHundredths == 520 \* the longest occupancy offered for invoicing, in 1/100 hour
MaxUnitHours == 2    \* the largest no_of_hours of a service unit type
MaxChild == 2   \* rows of one child table of the admission encounter
MaxCounselling == 2 \* Treatment Counselling records ever inserted

NoneVal == -1

\* One instant of the clock is 30 minutes.  A quantity (minutes / 60 for Hour,
\* minutes / 1440 for Day) is held as the whole number of 48ths it is.
TickMinutes == 30
QtyDen == 48

StayIds == 1..MaxStays
Times == 0..MaxTime
Patients == {"P1", "P2"}
Units == {"A", "B"}
NoUnit == ""
Requests == {"r1", "r2"}

\* Healthcare Service Unit Type.is_billable of each unit's type
Billable == {"A"}

\* Healthcare Service Unit Type of each unit: item, uom, rate, no_of_hours and
\* minimum_billable_qty (0: none set)
UnitType ==
  [ A |-> [item |-> "Bed", uom |-> "Hour", rate |-> 4, no_of_hours |-> 2,
           minimum_billable_qty |-> 0],
    B |-> [item |-> "Room", uom |-> "Day", rate |-> 3, no_of_hours |-> 1,
           minimum_billable_qty |-> 1] ]

ItemCodes == <<"Bed", "Room">>

\* The child tables of an Inpatient Record that are seeded from the admission
\* encounter, in the order of lines 262-281
ChildTables ==
  <<"chief_complaint", "diagnosis", "drug_prescription", "lab_test_prescription",
    "procedure_prescription", "therapies">>

\* The child table of the Patient Encounter each of them is seeded from
EncounterTable ==
  [ chief_complaint |-> "symptoms",
    diagnosis |-> "diagnosis",
    drug_prescription |-> "drug_prescription",
    lab_test_prescription |-> "lab_test_prescription",
    procedure_prescription |-> "procedure_prescription",
    therapies |-> "therapies" ]

EncounterTables == { EncounterTable[ChildTables[k]] : k \in DOMAIN ChildTables }

\* Treatment Plan Template.treatment_counselling_required_for_ip of each template
treatment_counselling_required_for_ip == [ Plan |-> FALSE, PlanCounselled |-> TRUE ]

Templates == DOMAIN treatment_counselling_required_for_ip

\* A Patient Encounter without child rows
BlankEncounter == [ t \in EncounterTables |-> <<>> ]

NoChildren == [ k \in DOMAIN ChildTables |-> <<>> ]

BlankStay ==
  [ patient |-> "",
    status |-> "None",
    scheduled_date |-> NoneVal,
    admitted_datetime |-> NoneVal,
    expected_discharge |-> NoneVal,
    discharge_ordered_date |-> NoneVal,
    discharge_datetime |-> NoneVal,
    reason_for_cancellation |-> "",
    inpatient_occupancies |-> <<>>,
    items |-> <<>>,
    total |-> 0,
    children |-> NoChildren ]

NoLink == [inpatient_record |-> 0, inpatient_status |-> "None"]

\* The settings and the linked documents a request reads:
\*   vn      Healthcare Settings.validate_nursing_checklists
\*   tasks   a mandatory Nursing Task of the stay is neither Completed nor Cancelled
\*   bypass  Healthcare Settings.allow_discharge_despite_unbilled_services
\*   autogen Healthcare Settings.automatically_generate_billable
\*   docs    the doctypes (Patient Appointment, Patient Encounter, Lab Test, Clinical
\*           Procedure, Service Request, Medication Request) with an unbilled document
\*           linked to the stay
\*   srchk   Healthcare Settings.process_service_request_only_if_paid
\*   srs     a submitted Service Request of the stay is not Completed
DocSets == {{}, {"Lab Test"}}

\* line 418: the doctypes get_pending_invoices asks for unbilled documents
DocTypes ==
  { "Patient Appointment", "Patient Encounter", "Lab Test", "Clinical Procedure",
    "Service Request", "Medication Request" }

Envs ==
  [ vn : BOOLEAN, tasks : BOOLEAN, bypass : BOOLEAN, autogen : BOOLEAN,
    docs : DocSets, srchk : BOOLEAN, srs : BOOLEAN ]

NoEnv ==
  [ vn |-> FALSE, tasks |-> FALSE, bypass |-> FALSE, autogen |-> FALSE,
    docs |-> {}, srchk |-> FALSE, srs |-> FALSE ]

IdleReq == [pc |-> "idle", op |-> "", stay |-> 0, unit |-> NoUnit, doc |-> BlankStay]

----------------------------------------------------------------------------
(* The database as one value, so that a handler is a function on it *)

DB ==
  [stay |-> stay, unit |-> unit, patient |-> patient, enc |-> enc,
   counselling |-> counselling]

Ok(d) == [err |-> "OK", db |-> d]
Err(e, d) == [err |-> e, db |-> d]

IsActive(status) == status \in {"Admitted", "Admission Scheduled"}
IsTerminal(status) == status \in {"Discharged", "Cancelled"}

\* frappe.utils.getdate: no value gives today's date
getdate(d) == IF d = NoneVal THEN now ELSE d

----------------------------------------------------------------------------
(* Documents: child rows, validate() and save() *)

\* A row as inpatient_record.append("inpatient_occupancies", {}) creates it:
\* no field has a value yet (the column defaults are written by save()).
NewRow(service_unit, check_in) ==
  [ service_unit |-> service_unit,
    check_in |-> check_in,
    check_out |-> NoneVal,
    left |-> NoneVal,
    transferred_for_procedure |-> NoneVal,
    invoiced |-> NoneVal,
    scheduled_billing_time |-> NoneVal ]

\* A Check column as the database stores it: no value is stored as 0.
cint(v) == IF v = NoneVal THEN 0 ELSE v

DbRow(row) ==
  [ row EXCEPT !.left = cint(row.left),
               !.transferred_for_procedure = cint(row.transferred_for_procedure),
               !.invoiced = cint(row.invoiced) ]

RECURSIVE SumAmounts(_)
SumAmounts(items) ==
  IF items = <<>> THEN 0 ELSE Head(items).amount + SumAmounts(Tail(items))

\* amounts that are set once and kept when the quantity changes
amount_only_once(doc) ==
  [ doc EXCEPT !.items =
      [ i \in DOMAIN doc.items |->
          IF doc.items[i].amount # 0 THEN doc.items[i]
          ELSE [ doc.items[i] EXCEPT
                   !.amount = doc.items[i].rate * doc.items[i].quantity ] ] ]

set_item_rate(doc) ==
  [ doc EXCEPT !.items =
      [ i \in DOMAIN doc.items |->
          [ doc.items[i] EXCEPT !.amount = doc.items[i].rate * doc.items[i].quantity ] ] ]

set_total(doc) == [doc EXCEPT !.total = SumAmounts(doc.items)]

\* a validation that does not look at the rows
validate_stay_dates_only(doc) ==
  IF \/ getdate(doc.expected_discharge) < getdate(doc.scheduled_date)
     \/ getdate(doc.discharge_ordered_date) < getdate(doc.scheduled_date)
  THEN "Dates"
  ELSE "OK"

\* a validation of the rows that does not look at the dates of the stay
validate_rows_only(doc) ==
  IF \E i \in DOMAIN doc.inpatient_occupancies :
       LET entry == doc.inpatient_occupancies[i] IN
         /\ entry.check_in # NoneVal
         /\ entry.check_out # NoneVal
         /\ entry.check_in > entry.check_out
  THEN "CheckOut"
  ELSE "OK"

validate_dates(doc) ==
  IF \/ getdate(doc.expected_discharge) < getdate(doc.scheduled_date)
     \/ getdate(doc.discharge_ordered_date) < getdate(doc.scheduled_date)
  THEN "Dates"
  ELSE IF \E i \in DOMAIN doc.inpatient_occupancies :
            LET entry == doc.inpatient_occupancies[i] IN
              /\ entry.check_in # NoneVal
              /\ entry.check_out # NoneVal
              /\ entry.check_in > entry.check_out
       THEN "CheckOut"
       ELSE "OK"

\* The other Inpatient Records of the patient that are Admitted or Admission Scheduled
ActiveOthers(stays, name, pat) ==
  { o \in DOMAIN stays : o # name /\ stays[o].patient = pat /\ IsActive(stays[o].status) }

\* a query that looks for Admitted records only
validate_admitted_only(stays, name, doc) ==
  IF \E o \in DOMAIN stays :
       o # name /\ stays[o].patient = doc.patient /\ stays[o].status = "Admitted"
  THEN "Duplicate" ELSE "OK"

validate_already_scheduled_or_admitted(stays, name, doc) ==
  IF ActiveOthers(stays, name, doc.patient) # {} THEN "Duplicate" ELSE "OK"

\* InpatientRecord.validate: the error it raises, or "OK"
validate(d, name, doc) ==
  IF validate_dates(doc) # "OK" THEN validate_dates(doc)
  ELSE validate_already_scheduled_or_admitted(d.stay, name, doc)

\* The writes of a save() whose validate() has passed: validate's own write to
\* the Patient (lines 55-58), then the document and its rows.
Store(d, name, doc) ==
  LET pat == IF IsTerminal(doc.status)
             THEN [d.patient EXCEPT ![doc.patient] = NoLink]
             ELSE d.patient
      stored == [ set_total(set_item_rate(doc)) EXCEPT !.inpatient_occupancies =
                    [ i \in DOMAIN doc.inpatient_occupancies |->
                        DbRow(doc.inpatient_occupancies[i]) ] ]
  IN [d EXCEPT !.stay = [d.stay EXCEPT ![name] = stored], !.patient = pat]

\* doc.save(): validate, then write the document and its rows.
\* The result carries the document as the handler goes on holding it.
Save(d, name, doc) ==
  IF validate(d, name, doc) # "OK"
  THEN [err |-> validate(d, name, doc), db |-> d, doc |-> doc]
  ELSE [err |-> "OK", db |-> Store(d, name, doc), doc |-> doc]

\* InpatientRecord.after_insert
after_insert(d, name, doc) ==
  [ d EXCEPT !.patient = [d.patient EXCEPT ![doc.patient] =
                 [inpatient_record |-> name, inpatient_status |-> doc.status]],
             !.enc = [d.enc EXCEPT ![name] =
                 [inpatient_record |-> name, inpatient_status |-> doc.status]] ]

----------------------------------------------------------------------------
(* Occupancy *)

Rows(doc) == doc.inpatient_occupancies

\* a transfer that never finds the stay on the unit
NeverOn(doc, service_unit) == FALSE

\* line 510: an open row on the unit, whatever its transferred_for_procedure
AlreadyOn(doc, service_unit) ==
  \E i \in DOMAIN Rows(doc) :
    Rows(doc)[i].service_unit = service_unit /\ Rows(doc)[i].left = 0

\* a transfer that leaves the earlier rows open
MarkNothing(rows) == rows

\* a transfer that marks the rows of procedure stays as well
MarkEveryOpenRow(rows) ==
  [ i \in DOMAIN rows |->
      IF rows[i].left = 0 THEN [rows[i] EXCEPT !.left = 1] ELSE rows[i] ]

\* lines 520-522: every row that compares equal to 0 in both columns is marked
\* left; the row just appended holds no value in either and is not.
MarkLeft(rows) ==
  [ i \in DOMAIN rows |->
      IF rows[i].transferred_for_procedure = 0 /\ rows[i].left = 0
      THEN [rows[i] EXCEPT !.left = 1]
      ELSE rows[i] ]

\* lines 513-522: the rows after the append and the marking
TransferRows(rows, service_unit, check_in, txred) ==
  LET item_line == NewRow(service_unit, check_in) IN
    IF txred
    THEN Append(rows, [item_line EXCEPT !.transferred_for_procedure = 1])
    ELSE MarkLeft(Append(rows, item_line))

transfer_patient(d, name, doc, service_unit, check_in, txred) ==
  IF AlreadyOn(doc, service_unit)
  THEN [err |-> "OK", db |-> d, doc |-> doc]
  ELSE
    LET doc2 == [doc EXCEPT !.inpatient_occupancies =
                   TransferRows(Rows(doc), service_unit, check_in, txred)]
        sv == Save(d, name, doc2)
    IN IF sv.err # "OK" THEN sv
       ELSE [sv EXCEPT !.db.unit[service_unit] = "Occupied"]

\* The rows a leave or a check-out closes
OpenOn(rows, service_unit) ==
  { i \in DOMAIN rows : rows[i].left # 1 /\ rows[i].service_unit = service_unit }

\* the open rows that are not stays for a procedure
OpenPlainRows(rows) ==
  { i \in DOMAIN rows : rows[i].left # 1 /\ rows[i].transferred_for_procedure # 1 }

OpenRows(rows) == { i \in DOMAIN rows : rows[i].left # 1 }

\* a leave that marks the rows left and forgets the instant
MarkRowsLeft(rows, which, check_out) ==
  [ i \in DOMAIN rows |->
      IF i \in which THEN [rows[i] EXCEPT !.left = 1] ELSE rows[i] ]

CloseRows(rows, which, check_out) ==
  [ i \in DOMAIN rows |->
      IF i \in which THEN [rows[i] EXCEPT !.left = 1, !.check_out = check_out]
      ELSE rows[i] ]

Vacate(units, rows, which) ==
  [ u \in DOMAIN units |->
      IF \E i \in which : rows[i].service_unit = u THEN "Vacant" ELSE units[u] ]

patient_leave_service_unit(d, name, doc, check_out, leave_from) ==
  LET which == OpenOn(Rows(doc), leave_from)
      doc2 == [doc EXCEPT !.inpatient_occupancies = CloseRows(Rows(doc), which, check_out)]
      d2 == [d EXCEPT !.unit = Vacate(d.unit, Rows(doc), which)]
  IN Save(d2, name, doc2)

check_out_inpatient(d, doc) ==
  LET which == OpenRows(Rows(doc)) IN
    [ db |-> [d EXCEPT !.unit = Vacate(d.unit, Rows(doc), which)],
      doc |-> [doc EXCEPT !.inpatient_occupancies = CloseRows(Rows(doc), which, now)] ]

----------------------------------------------------------------------------
(* The checks before admission and discharge *)

\* a check of the nursing tasks that never raises
nursing_tasks_unchecked(env) == "OK"

\* healthcare/utils.py validate_nursing_tasks
validate_nursing_tasks(env) ==
  IF ~env.vn THEN "OK"
  ELSE IF ~env.tasks THEN "OK"
  ELSE "Nursing"

is_service_unit_billable(service_unit) == service_unit \in Billable

\* pending invoices that count occupancy rows and line items under either policy
pending_under_both_policies(doc, env) ==
  ( IF \E i \in DOMAIN Rows(doc) :
         /\ Rows(doc)[i].invoiced = 0
         /\ is_service_unit_billable(Rows(doc)[i].service_unit)
    THEN {"Inpatient Occupancy"} ELSE {} )
  \cup ( IF \E i \in DOMAIN doc.items : doc.items[i].invoiced = 0
         THEN {"Items"} ELSE {} )
  \cup env.docs

get_pending_invoices(doc, env) ==
  ( IF ~env.autogen
    THEN IF \E i \in DOMAIN Rows(doc) :
              /\ Rows(doc)[i].invoiced = 0
              /\ is_service_unit_billable(Rows(doc)[i].service_unit)
         THEN {"Inpatient Occupancy"} ELSE {}
    ELSE IF \E i \in DOMAIN doc.items : doc.items[i].invoiced = 0
         THEN {"Items"} ELSE {} )
  \cup env.docs

\* a check that collects the pending invoices and never raises
validate_invoicing_silent(doc, env) == "OK"

validate_inpatient_invoicing(doc, env) ==
  IF env.bypass THEN "OK"
  ELSE IF get_pending_invoices(doc, env) # {} THEN "Billing"
  ELSE "OK"

validate_incompleted_service_requestes(env) ==
  IF ~env.srchk THEN "OK"
  ELSE IF env.srs THEN "ServiceRequest"
  ELSE "OK"

----------------------------------------------------------------------------
(* The request handlers, each a function from the database to its outcome *)

Exists(d, name) == name \in DOMAIN d.stay /\ d.stay[name].status # "None"

FreeIds(d) == { n \in DOMAIN d.stay : d.stay[n].status = "None" }

\* The name frappe.new_doc's document gets on insert
NewName(d) == CHOOSE n \in FreeIds(d) : \A m \in FreeIds(d) : n <= m

\* table.set(df.fieldname, item.get(df.fieldname)) for the fields of the row
CopiedRow(item) == [ code |-> item.code ]

\* a seeding that adds one row per child table, whatever the encounter holds
first_row_only(doc, k, encounter_child) ==
  IF encounter_child = <<>> THEN doc
  ELSE [ doc EXCEPT !.children[k] = Append(@, CopiedRow(encounter_child[1])) ]

\* set_ip_child_records, for the k-th child table
set_ip_child_records(doc, k, encounter_child) ==
  [ doc EXCEPT !.children[k] =
      @ \o [ i \in DOMAIN encounter_child |-> CopiedRow(encounter_child[i]) ] ]

\* lines 262-281: the child tables are seeded one after the other
RECURSIVE SeedFrom(_, _, _)
SeedFrom(doc, encounter, k) ==
  IF k > Len(ChildTables) THEN doc
  ELSE LET encounter_child == encounter[EncounterTable[ChildTables[k]]]
       IN SeedFrom(IF encounter_child # <<>>
                   THEN set_ip_child_records(doc, k, encounter_child)
                   ELSE doc,
                   encounter, k + 1)

\* lines 242-282: the document create_inpatient_record builds
NewStay(order) ==
  LET doc == [ BlankStay EXCEPT !.patient = order.patient,
                                !.scheduled_date = now ]
  IN [ SeedFrom(doc, order.encounter, 1) EXCEPT !.status = "Admission Scheduled" ]

create_inpatient_record(d, order) ==
  IF order.patient = "" \/ order.admission_encounter = ""
  THEN Err("Missing", d)
  ELSE
    LET name == NewName(d)
        doc == NewStay(order)
        sv == Save(d, name, doc)
    IN IF sv.err # "OK" THEN Err(sv.err, d)
       ELSE Ok(after_insert(sv.db, name, doc))

create_treatment_counselling(d, order) ==
  Ok([d EXCEPT !.counselling = d.counselling + 1])

\* a schedule that inserts the Inpatient Record and the counselling record
schedule_both(d, order) ==
  LET r == create_inpatient_record(d, order) IN
    IF r.err # "OK" THEN r ELSE create_treatment_counselling(r.db, order)

schedule_inpatient(d, order) ==
  IF /\ order.treatment_plan_template # ""
     /\ treatment_counselling_required_for_ip[order.treatment_plan_template]
  THEN create_treatment_counselling(d, order)
  ELSE create_inpatient_record(d, order)

\* an admission that appends to the rows the stay already holds
admit_keeping_rows(d, name, service_unit, check_in, expected_discharge, env) ==
  LET doc == [ d.stay[name] EXCEPT !.admitted_datetime = check_in,
                                   !.status = "Admitted",
                                   !.expected_discharge = expected_discharge ]
      tr == transfer_patient(d, name, doc, service_unit, check_in, FALSE)
  IN IF tr.err # "OK" THEN Err(tr.err, d)
     ELSE Ok([ tr.db EXCEPT !.patient[doc.patient] =
                 [inpatient_record |-> name, inpatient_status |-> "Admitted"] ])

admit_patient(d, name, service_unit, check_in, expected_discharge, env) ==
  IF validate_nursing_tasks(env) # "OK"
  THEN Err(validate_nursing_tasks(env), d)
  ELSE
    LET doc == [ d.stay[name] EXCEPT !.admitted_datetime = check_in,
                                     !.status = "Admitted",
                                     !.expected_discharge = expected_discharge,
                                     !.inpatient_occupancies = <<>> ]
        tr == transfer_patient(d, name, doc, service_unit, check_in, FALSE)
    IN IF tr.err # "OK" THEN Err(tr.err, d)
       ELSE Ok([ tr.db EXCEPT !.patient[doc.patient] =
                   [inpatient_record |-> name, inpatient_status |-> "Admitted"] ])

\* InpatientRecord.transfer
\* a transfer whose 'Vacant' writes outlive the failure of the request
transfer_keeping_vacated(d, name, service_unit, check_in, leave_from, txred) ==
  LET doc == d.stay[name]
      vacated == [d EXCEPT !.unit = Vacate(d.unit, Rows(doc), OpenOn(Rows(doc), leave_from))]
      lv == IF leave_from # NoUnit
            THEN patient_leave_service_unit(d, name, doc, check_in, leave_from)
            ELSE [err |-> "OK", db |-> d, doc |-> doc]
  IN IF lv.err # "OK" THEN Err(lv.err, vacated)
     ELSE IF service_unit = NoUnit THEN Ok(lv.db)
     ELSE LET tr == transfer_patient(lv.db, name, lv.doc, service_unit, check_in, txred)
          IN IF tr.err # "OK" THEN Err(tr.err, vacated) ELSE Ok(tr.db)

transfer(d, name, service_unit, check_in, leave_from, txred) ==
  LET doc == d.stay[name]
      lv == IF leave_from # NoUnit
            THEN patient_leave_service_unit(d, name, doc, check_in, leave_from)
            ELSE [err |-> "OK", db |-> d, doc |-> doc]
  IN IF lv.err # "OK" THEN Err(lv.err, d)
     ELSE IF service_unit = NoUnit THEN Ok(lv.db)
     ELSE LET tr == transfer_patient(lv.db, name, lv.doc, service_unit, check_in, txred)
          IN IF tr.err # "OK" THEN Err(tr.err, d) ELSE Ok(tr.db)

\* The Inpatient Record schedule_discharge works on (0: the patient has none linked)
LinkedStay(d, pat) == d.patient[pat].inpatient_record

schedule_discharge(d, order) ==
  LET name == LinkedStay(d, order.patient) IN
    IF name = 0 THEN Ok(d)
    ELSE
      LET co == check_out_inpatient(d, d.stay[name])
          doc == [ co.doc EXCEPT !.discharge_ordered_date = order.discharge_ordered_date,
                                 !.status = "Discharge Scheduled" ]
          sv == Save(co.db, name, doc)
      IN IF sv.err # "OK" THEN Err(sv.err, d)
         ELSE Ok([ sv.db EXCEPT !.patient[order.patient].inpatient_status =
                     "Discharge Scheduled" ])

\* discharge_patient without its last check
DischargeChecksNoRequests(doc, env) ==
  IF validate_nursing_tasks(env) # "OK" THEN validate_nursing_tasks(env)
  ELSE validate_inpatient_invoicing(doc, env)

\* discharge_patient with the invoicing check first
DischargeChecksBillingFirst(doc, env) ==
  IF validate_inpatient_invoicing(doc, env) # "OK"
  THEN validate_inpatient_invoicing(doc, env)
  ELSE IF validate_nursing_tasks(env) # "OK" THEN validate_nursing_tasks(env)
  ELSE validate_incompleted_service_requestes(env)

\* lines 345-349: the three checks in the order discharge_patient makes them
DischargeChecks(doc, env) ==
  IF validate_nursing_tasks(env) # "OK" THEN validate_nursing_tasks(env)
  ELSE IF validate_inpatient_invoicing(doc, env) # "OK"
       THEN validate_inpatient_invoicing(doc, env)
  ELSE validate_incompleted_service_requestes(env)

discharge_patient(d, name, env) ==
  IF DischargeChecks(d.stay[name], env) # "OK"
  THEN Err(DischargeChecks(d.stay[name], env), d)
  ELSE
    LET doc == [ d.stay[name] EXCEPT !.discharge_datetime = now,
                                     !.status = "Discharged" ]
        sv == Save(d, name, doc)
    IN IF sv.err # "OK" THEN Err(sv.err, d) ELSE Ok(sv.db)

\* a cancellation that does not look at the status
cancel_in_any_status(d, name, reason) ==
  LET doc == [ d.stay[name] EXCEPT !.status = "Cancelled",
                                   !.reason_for_cancellation = reason ]
      sv == Save(d, name, doc)
  IN IF sv.err # "OK" THEN Err(sv.err, d)
     ELSE Ok([sv.db EXCEPT !.enc[name] = NoLink])

set_ip_order_cancelled(d, name, reason) ==
  IF d.stay[name].status = "Admission Scheduled"
  THEN
    LET doc == [ d.stay[name] EXCEPT !.status = "Cancelled",
                                     !.reason_for_cancellation = reason ]
        sv == Save(d, name, doc)
    IN IF sv.err # "OK" THEN Err(sv.err, d)
       ELSE Ok([sv.db EXCEPT !.enc[name] = NoLink])
  ELSE Ok(d)

----------------------------------------------------------------------------
(* Billing of the occupancy: InpatientRecord.add_service_unit_rent_to_billable_items *)

\* TIMESTAMPDIFF(minute, a, b)
TIMESTAMPDIFF(a, b) == (b - a) * TickMinutes

\* lines 128-134: the occupancy rows of the stay whose unit's type has the item
Group(rows, item) ==
  { i \in DOMAIN rows : UnitType[rows[i].service_unit].item = item }

RECURSIVE SumOver(_, _)
SumOver(f, S) ==
  IF S = {} THEN 0
  ELSE LET i == CHOOSE j \in S : TRUE IN f[i] + SumOver(f, S \ {i})

\* line 117: sum(TIMESTAMPDIFF(minute, io.check_in, now()))
now_difference(rows, item) ==
  SumOver([i \in DOMAIN rows |-> TIMESTAMPDIFF(rows[i].check_in, now)], Group(rows, item))

\* line 118: sum(TIMESTAMPDIFF(minute, io.check_in, io.check_out)); a row with
\* no check_out adds nothing, and the sum of no row at all is no value
time_difference(rows, item) ==
  LET closed == { i \in Group(rows, item) : rows[i].check_out # NoneVal } IN
    IF closed = {} THEN NoneVal
    ELSE SumOver([i \in DOMAIN rows |->
                    IF rows[i].check_out = NoneVal THEN 0
                    ELSE TIMESTAMPDIFF(rows[i].check_in, rows[i].check_out)], closed)

\* lines 144-148
UomMinutes(uom) == IF uom = "Day" THEN 1440 ELSE 60

\* minutes / uom, in QtyDen-ths
PerUom(minutes, uom) == (minutes * QtyDen) \div UomMinutes(uom)

\* lines 149-156: the quantity of an item, io.left being that of the row `rp`
\* of the group; NoneVal when the division raises (time_difference is None)
Quantity(rows, item, rp) ==
  LET type == UnitType[rows[rp].service_unit]
      minimum == type.minimum_billable_qty * QtyDen
      td == time_difference(rows, item)
      raw == IF rows[rp].left = 1 THEN PerUom(td, type.uom)
             ELSE PerUom(now_difference(rows, item), type.uom)
  IN IF rows[rp].left = 1 /\ td = NoneVal THEN NoneVal
     ELSE IF minimum # 0 /\ raw < minimum THEN minimum
     ELSE raw

\* lines 159-165 and 170-176: the appended line item
NewItem(type, quantity) ==
  [ item_code |-> type.item,
    quantity |-> quantity,
    rate |-> type.rate \div type.no_of_hours,
    invoiced |-> 0,
    amount |-> 0 ]

\* a billing run that appends the newly computed quantity as another line item
BillItemAppending(items, type, quantity, pick) ==
  IF pick = 0 THEN Append(items, NewItem(type, quantity))
  ELSE IF items[pick].invoiced # 0
       THEN IF /\ items[pick].quantity # 0 /\ quantity # 0
               /\ quantity > items[pick].quantity
            THEN Append(items, NewItem(type, quantity - items[pick].quantity))
            ELSE items
       ELSE IF quantity # items[pick].quantity
            THEN Append(items, NewItem(type, quantity))
            ELSE items

\* lines 157-182: what one item of the query does to the line items, item_row
\* being the stored line item `pick` (0: the stay has none of the item_code)
BillItem(items, type, quantity, pick) ==
  IF pick = 0 THEN Append(items, NewItem(type, quantity))
  ELSE IF items[pick].invoiced # 0
       THEN IF /\ items[pick].quantity # 0 /\ quantity # 0
               /\ quantity > items[pick].quantity
            THEN Append(items, NewItem(type, quantity - items[pick].quantity))
            ELSE items
       ELSE IF quantity # items[pick].quantity
            THEN [items EXCEPT ![pick].quantity = quantity]
            ELSE items

\* The rows the database may return for each item: rp[k] a row of the group of
\* ItemCodes[k] (line 119: io.left of a grouped query), pick[k] a stored line
\* item of that item_code (lines 141-143), 0 where there is none
RowChoices(doc) ==
  { rp \in [DOMAIN ItemCodes -> 0..Len(Rows(doc))] :
      \A k \in DOMAIN ItemCodes :
        IF Group(Rows(doc), ItemCodes[k]) = {} THEN rp[k] = 0
        ELSE rp[k] \in Group(Rows(doc), ItemCodes[k]) }

ItemsOf(doc, item) == { i \in DOMAIN doc.items : doc.items[i].item_code = item }

ItemChoices(doc) ==
  { pick \in [DOMAIN ItemCodes -> 0..Len(doc.items)] :
      \A k \in DOMAIN ItemCodes :
        IF ItemsOf(doc, ItemCodes[k]) = {} THEN pick[k] = 0
        ELSE pick[k] \in ItemsOf(doc, ItemCodes[k]) }

\* lines 136-182: the loop over the query, item after item; err is "Billing"
\* once a quantity cannot be computed
RECURSIVE BillLoop(_, _, _, _, _)
BillLoop(doc, items, rp, pick, k) ==
  IF k > Len(ItemCodes) THEN [err |-> "OK", items |-> items]
  ELSE IF rp[k] = 0 THEN BillLoop(doc, items, rp, pick, k + 1)
  ELSE LET quantity == Quantity(Rows(doc), ItemCodes[k], rp[k]) IN
         IF quantity = NoneVal THEN [err |-> "Billing", items |-> doc.items]
         ELSE BillLoop(doc,
                       BillItem(items, UnitType[Rows(doc)[rp[k]].service_unit],
                                quantity, pick[k]),
                       rp, pick, k + 1)

\* lines 184-186: the row of the last item of the query
LastBilled(rp) ==
  IF \A k \in DOMAIN ItemCodes : rp[k] = 0 THEN 0
  ELSE rp[CHOOSE k \in DOMAIN ItemCodes :
            rp[k] # 0 /\ \A j \in DOMAIN ItemCodes : rp[j] # 0 => j <= k]

\* Whatever is raised is caught and logged (lines 189-190): nothing is stored
add_service_unit_rent_to_billable_items(d, name, rp, pick) ==
  LET doc == d.stay[name]
      loop == BillLoop(doc, doc.items, rp, pick, 1)
      billed == LastBilled(rp)
      doc2 == [doc EXCEPT
                 !.items = loop.items,
                 !.inpatient_occupancies =
                    [ i \in DOMAIN Rows(doc) |->
                        IF i = billed
                        THEN [Rows(doc)[i] EXCEPT !.scheduled_billing_time = now]
                        ELSE Rows(doc)[i] ]]
      sv == Save(d, name, doc2)
  IN IF loop.err # "OK" THEN Err(loop.err, d)
     ELSE IF sv.err # "OK" THEN Err(sv.err, d)
     ELSE Ok(sv.db)

\* line 677: the Inpatient Records the job bills
OpenStays(d) ==
  { n \in DOMAIN d.stay : d.stay[n].status \in {"Admitted", "Discharge Scheduled"} }

\* a job that ends at the first stay whose billing fails
RECURSIVE SweepUntilFailure(_, _, _, _)
SweepUntilFailure(d, todo, ch, logged) ==
  IF todo = {} \/ logged # {} THEN [db |-> d, logged |-> logged]
  ELSE LET name == CHOOSE n \in todo : \A m \in todo : n <= m
           r == add_service_unit_rent_to_billable_items(d, name, ch[name].rp, ch[name].pick)
       IN SweepUntilFailure(r.db, todo \ {name}, ch,
                            IF r.err # "OK" THEN logged \cup {name} ELSE logged)

\* lines 681-682: the stays are billed one after the other; each call writes
\* its own record only, and what it raises is caught and logged inside it
RECURSIVE SweepLoop(_, _, _, _)
SweepLoop(d, todo, ch, logged) ==
  IF todo = {} THEN [db |-> d, logged |-> logged]
  ELSE LET name == CHOOSE n \in todo : \A m \in todo : n <= m
           r == add_service_unit_rent_to_billable_items(d, name, ch[name].rp, ch[name].pick)
       IN SweepLoop(r.db, todo \ {name}, ch,
                    IF r.err # "OK" THEN logged \cup {name} ELSE logged)

\* add_occupied_service_unit_in_ip_to_billables
add_occupied_service_unit_in_ip_to_billables(d, env, ch) ==
  IF ~env.autogen THEN [db |-> d, logged |-> {}]
  ELSE SweepLoop(d, OpenStays(d), ch, {})

----------------------------------------------------------------------------
(* Invoicing of a closed occupancy: healthcare/utils.py                       *)
(* get_inpatient_services_to_invoice, lines 255-268.  hours_occupied is held  *)
(* in hundredths of an hour (flt(..., 2)), qty in halves.                     *)

\* a rounding that always gives the minimum
qty_minimum_only(hours_occupied, no_of_hours) == 1

qty_to_invoice(hours_occupied, no_of_hours) ==
  IF hours_occupied > 0
  THEN LET whole == 100 * no_of_hours            \* one unit, in hundredths
           floor == hours_occupied \div whole
           part == hours_occupied % whole        \* decimal_part * whole
           qty == IF 2 * part > whole THEN 2 * (floor + 1)
                  ELSE IF 2 * part < whole /\ part > 0 THEN 2 * floor + 1
                  ELSE 1
       IN IF qty <= 0 THEN 1 ELSE qty
  ELSE 1

----------------------------------------------------------------------------
(* Requests as atomic steps *)

\* The arguments of an admit or transfer call and what a schedule call is given
\* (no value where the call has none)
NoArgs ==
  [service_unit |-> NoUnit, check_in |-> NoneVal, leave_from |-> NoUnit, txred |-> FALSE,
   treatment_plan_template |-> "", encounter |-> BlankEncounter,
    rp |-> [k \in DOMAIN ItemCodes |-> 0],
    pick |-> [k \in DOMAIN ItemCodes |-> 0] ]

\* logged: the stays for which the request wrote an Error Log (frappe.log_error)
NoLast ==
  [op |-> "Init", stay |-> 0, patient |-> "", err |-> "OK", env |-> NoEnv,
   args |-> NoArgs, logged |-> {}]

\* No occupancy is being offered for invoicing
NoQuote == [hours_occupied |-> NoneVal, no_of_hours |-> NoneVal, qty |-> NoneVal]

Init ==
  /\ stay = [n \in StayIds |-> BlankStay]
  /\ unit = [u \in Units |-> "Vacant"]
  /\ patient = [p \in Patients |-> NoLink]
  /\ enc = [n \in StayIds |-> NoLink]
  /\ counselling = 0
  /\ now = 0
  /\ last = NoLast
  /\ req = [r \in Requests |-> IdleReq]
  /\ quote = NoQuote

\* The database becomes d
Commit(d) ==
  /\ stay' = d.stay
  /\ unit' = d.unit
  /\ patient' = d.patient
  /\ enc' = d.enc
  /\ counselling' = d.counselling

\* The request ends: its writes are committed, or (on an error) none is kept.
Finish(r, op, name, pat, env, args) ==
  /\ Commit(r.db)
  /\ last' = [op |-> op, stay |-> name, patient |-> pat, err |-> r.err, env |-> env,
              args |-> args, logged |-> {}]

Schedule(order) ==
  /\ FreeIds(DB) # {}
  /\ Finish(schedule_inpatient(DB, order), "Schedule", 0, order.patient, NoEnv,
            [NoArgs EXCEPT !.treatment_plan_template = order.treatment_plan_template,
                           !.encounter = order.encounter])
  /\ UNCHANGED <<now, req, quote>>

Admit(s, service_unit, check_in, expected_discharge, env) ==
  /\ Exists(DB, s)
  /\ Finish(admit_patient(DB, s, service_unit, check_in, expected_discharge, env),
            "Admit", s, stay[s].patient, env,
            [NoArgs EXCEPT !.service_unit = service_unit, !.check_in = check_in])
  /\ UNCHANGED <<now, req, quote>>

Transfer(s, service_unit, check_in, leave_from, txred) ==
  /\ Exists(DB, s)
  /\ service_unit # NoUnit \/ leave_from # NoUnit
  /\ Finish(transfer(DB, s, service_unit, check_in, leave_from, txred),
            "Transfer", s, stay[s].patient, NoEnv,
            [NoArgs EXCEPT !.service_unit = service_unit, !.check_in = check_in,
                           !.leave_from = leave_from, !.txred = txred])
  /\ UNCHANGED <<now, req, quote>>

ScheduleDischarge(order) ==
  /\ Finish(schedule_discharge(DB, order), "ScheduleDischarge",
            LinkedStay(DB, order.patient), order.patient, NoEnv, NoArgs)
  /\ UNCHANGED <<now, req, quote>>

Discharge(s, env) ==
  /\ Exists(DB, s)
  /\ Finish(discharge_patient(DB, s, env), "Discharge", s, stay[s].patient, env, NoArgs)
  /\ UNCHANGED <<now, req, quote>>

Cancel(s, reason) ==
  /\ Exists(DB, s)
  /\ Finish(set_ip_order_cancelled(DB, s, reason), "Cancel", s, stay[s].patient, NoEnv, NoArgs)
  /\ UNCHANGED <<now, req, quote>>

\* healthcare/utils.py set_invoiced, for a Sales Invoice item that references
\* an Inpatient Occupancy row, on submit of the invoice
InvoiceOccupancy(s, i) ==
  /\ Exists(DB, s)
  /\ i \in DOMAIN stay[s].inpatient_occupancies
  /\ stay[s].inpatient_occupancies[i].invoiced = 0
  /\ stay' = [stay EXCEPT ![s].inpatient_occupancies[i].invoiced = 1]
  /\ last' = [op |-> "Invoice", stay |-> s, patient |-> stay[s].patient,
              err |-> "OK", env |-> NoEnv, args |-> NoArgs, logged |-> {}]
  /\ UNCHANGED <<unit, patient, enc, counselling, now, req, quote>>

\* healthcare/utils.py set_invoiced, for a Sales Invoice item that references
\* an Inpatient Record Item, on submit of the invoice
InvoiceItem(s, i) ==
  /\ Exists(DB, s)
  /\ i \in DOMAIN stay[s].items
  /\ stay[s].items[i].invoiced = 0
  /\ stay' = [stay EXCEPT ![s].items[i].invoiced = 1]
  /\ last' = [op |-> "InvoiceItem", stay |-> s, patient |-> stay[s].patient,
              err |-> "OK", env |-> NoEnv, args |-> NoArgs, logged |-> {}]
  /\ UNCHANGED <<unit, patient, enc, counselling, now, req, quote>>

\* InpatientRecord.add_service_unit_rent_to_billable_items on stay s
ComputeBilling(s, rp, pick) ==
  /\ Exists(DB, s)
  /\ LET r == add_service_unit_rent_to_billable_items(DB, s, rp, pick) IN
       /\ Commit(r.db)
       /\ last' = [op |-> "ComputeBilling", stay |-> s, patient |-> stay[s].patient,
                   err |-> r.err, env |-> NoEnv,
                   args |-> [NoArgs EXCEPT !.rp = rp, !.pick = pick],
                   logged |-> IF r.err # "OK" THEN {s} ELSE {}]
  /\ UNCHANGED <<now, req, quote>>

\* The scheduled job add_occupied_service_unit_in_ip_to_billables, ch[s] being
\* the rows the database returns while the stay s is billed
Sweep(env, ch) ==
  /\ LET r == add_occupied_service_unit_in_ip_to_billables(DB, env, ch) IN
       /\ Commit(r.db)
       /\ last' = [op |-> "Sweep", stay |-> 0, patient |-> "", err |-> "OK",
                   env |-> env, args |-> NoArgs, logged |-> r.logged]
  /\ UNCHANGED <<now, req, quote>>

----------------------------------------------------------------------------
(* Inputs *)

\* An admission order, with the Patient Encounter its admission_encounter names
OrderWith(p, encounter) ==
  [patient |-> p, admission_encounter |-> "E", treatment_plan_template |-> "",
   encounter |-> encounter]

\* An admission order that names a treatment plan template
OrderPlan(p, template) ==
  [OrderWith(p, BlankEncounter) EXCEPT !.treatment_plan_template = template]

OrderFor(p) == OrderWith(p, BlankEncounter)

DischargeOrderFor(p, date) == [patient |-> p, discharge_ordered_date |-> date]

\* What a request reads, in three cases: nothing outstanding, an outstanding
\* nursing task under validation, an unbilled linked document.
NursingEnvs == { NoEnv, [NoEnv EXCEPT !.vn = TRUE, !.tasks = TRUE] }

SomeEnvs == NursingEnvs \cup { [NoEnv EXCEPT !.docs = {"Lab Test"}] }

\* What an admission reads: as NursingEnvs, and an outstanding nursing task
\* while the validation is off
AdmitEnvs == NursingEnvs \cup { [NoEnv EXCEPT !.tasks = TRUE] }

RowsBelow(s, n) == Len(stay[s].inpatient_occupancies) < n

----------------------------------------------------------------------------
(* Spec: the lifecycle requests of several stays and patients, one at a time *)

Next ==
  \/ \E p \in Patients : Schedule(OrderFor(p))
  \/ \E s \in StayIds, u \in Units : Admit(s, u, now, NoneVal, NoEnv)
  \/ \E s \in StayIds, u \in Units \cup {NoUnit}, lf \in Units \cup {NoUnit}, tx \in BOOLEAN :
       RowsBelow(s, MaxRows) /\ Transfer(s, u, now, lf, tx)
  \/ \E p \in Patients : ScheduleDischarge(DischargeOrderFor(p, NoneVal))
  \/ \E s \in StayIds, env \in SomeEnvs : Discharge(s, env)
  \/ \E s \in StayIds : Cancel(s, "reason")

Spec == Init /\ [][Next]_vars

----------------------------------------------------------------------------
(* SpecPatient: every stay is a stay of the one patient P1 *)

NextPatient ==
  \/ Schedule(OrderFor("P1"))
  \/ \E s \in StayIds, u \in {"A"} : Admit(s, u, now, NoneVal, NoEnv)
  \/ \E s \in StayIds, u \in {"A"} :
       RowsBelow(s, MaxRows) /\ Transfer(s, u, now, NoUnit, FALSE)
  \/ ScheduleDischarge(DischargeOrderFor("P1", NoneVal))
  \/ \E s \in StayIds : Discharge(s, NoEnv)
  \/ \E s \in StayIds : Cancel(s, "reason")

SpecPatient == Init /\ [][NextPatient]_vars

----------------------------------------------------------------------------
(* SpecGate: one stay, and everything the checks before discharge can read *)

NextGate ==
  \/ stay[1].status = "None" /\ Schedule(OrderFor("P1"))
  \/ \E u \in Units, env \in AdmitEnvs : Admit(1, u, now, NoneVal, env)
  \/ ScheduleDischarge(DischargeOrderFor("P1", NoneVal))
  \/ \E env \in Envs : Discharge(1, env)
  \/ Cancel(1, "reason")
  \/ \E i \in 1..MaxOcc : InvoiceOccupancy(1, i)

SpecGate == Init /\ [][NextGate]_vars

----------------------------------------------------------------------------
(* SpecOcc: one stay, its occupancy rows and the units *)

NextOcc ==
  \/ stay[1].status = "None" /\ Schedule(OrderFor("P1"))
  \/ \E u \in Units : Admit(1, u, now, NoneVal, NoEnv)
  \/ \E u \in Units \cup {NoUnit}, lf \in Units \cup {NoUnit}, tx \in BOOLEAN :
       RowsBelow(1, MaxOcc) /\ Transfer(1, u, now, lf, tx)
  \/ ScheduleDischarge(DischargeOrderFor("P1", NoneVal))
  \/ Discharge(1, NoEnv)
  \/ Cancel(1, "reason")

SpecOcc == Init /\ [][NextOcc]_vars

----------------------------------------------------------------------------
(* SpecTime: one stay, its occupancy rows and the units while the clock runs; *)
(* check_in is whatever instant the caller gives                              *)

\* now_datetime() moves on between two requests
TickUpTo(n) ==
  /\ now < n
  /\ now' = now + 1
  /\ UNCHANGED <<stay, unit, patient, enc, counselling, last, req, quote>>

Tick == TickUpTo(MaxTime)

NextTime ==
  \/ stay[1].status = "None" /\ Schedule(OrderFor("P1"))
  \/ \E u \in Units : Admit(1, u, now, NoneVal, NoEnv)
  \/ \E u \in Units \cup {NoUnit}, lf \in Units \cup {NoUnit}, tx \in BOOLEAN :
       RowsBelow(1, MaxMoves) /\ Transfer(1, u, now, lf, tx)
  \/ ScheduleDischarge(DischargeOrderFor("P1", NoneVal))
  \/ Tick

SpecTime == Init /\ [][NextTime]_vars

----------------------------------------------------------------------------
(* SpecLeave: one stay while the clock runs; the patient is moved, put on a   *)
(* second unit for a procedure, and leaves units                              *)

NextLeave ==
  \/ stay[1].status = "None" /\ Schedule(OrderFor("P1"))
  \/ \E u \in Units :
       stay[1].status = "Admission Scheduled" /\ Admit(1, u, now, NoneVal, NoEnv)
  \/ \E u \in Units, lf \in Units \cup {NoUnit}, tx \in BOOLEAN :
       RowsBelow(1, MaxMoves) /\ Transfer(1, u, now, lf, tx)
  \/ \E lf \in Units : Transfer(1, NoUnit, now, lf, FALSE)
  \/ Tick

SpecLeave == Init /\ [][NextLeave]_vars

----------------------------------------------------------------------------
(* SpecDates: one stay while the clock runs, check_in being whatever instant  *)
(* the caller gives, before or after the instants the rows already hold       *)

NextDates ==
  \/ stay[1].status = "None" /\ Schedule(OrderFor("P1"))
  \/ \E u \in Units, t \in Times : Admit(1, u, t, NoneVal, NoEnv)
  \/ \E u \in Units, lf \in Units \cup {NoUnit}, t \in Times :
       RowsBelow(1, MaxRows) /\ Transfer(1, u, t, lf, FALSE)
  \/ \E lf \in Units, t \in Times : Transfer(1, NoUnit, t, lf, FALSE)
  \/ ScheduleDischarge(DischargeOrderFor("P1", NoneVal))
  \/ Tick

SpecDates == Init /\ [][NextDates]_vars

----------------------------------------------------------------------------
(* SpecCalendar: the stay of one patient and the dates given at admission    *)
(* and with the discharge order; one step of the clock is one day here        *)

Dates == Times \cup {NoneVal}

NextCalendar ==
  \/ stay[1].status = "None" /\ Schedule(OrderFor("P1"))
  \/ \E u \in Units, ed \in Dates : Admit(1, u, now, ed, NoEnv)
  \/ \E dd \in Dates : ScheduleDischarge(DischargeOrderFor("P1", dd))
  \/ Discharge(1, NoEnv)
  \/ Tick

SpecCalendar == Init /\ [][NextCalendar]_vars

----------------------------------------------------------------------------
(* SpecSeed: admissions of one patient are scheduled from encounters that     *)
(* hold child rows                                                            *)

\* The rows 1..n in each of their rotations
Rotations(n) ==
  { [ i \in 1..n |-> ((i + r - 1) % n) + 1 ] : r \in 0..(n - 1) }

\* What a child table of the encounter can hold: no row, or up to MaxChild
\* rows in any rotation of their codes
ChildRows ==
  {<<>>} \cup
  { [ i \in DOMAIN rot |-> [code |-> rot[i], idx |-> i] ] :
      rot \in UNION { Rotations(n) : n \in 1..MaxChild } }

\* The encounters of which at most two child tables hold rows
Encounters ==
  { [ t \in EncounterTables |-> IF t = t1 THEN r1 ELSE IF t = t2 THEN r2 ELSE <<>> ] :
      t1 \in EncounterTables, t2 \in EncounterTables, r1 \in ChildRows, r2 \in ChildRows }

\* The stays that hold a seeded row
Seeded == { s \in StayIds : stay[s].children # NoChildren }

NextSeed ==
  \/ Seeded = {} /\ Schedule(OrderFor("P1"))
  \/ \E e \in Encounters : Seeded = {} /\ Schedule(OrderWith("P1", e))
  \/ \E s \in StayIds : Cancel(s, "reason")

SpecSeed == Init /\ [][NextSeed]_vars

----------------------------------------------------------------------------
(* SpecPlan: admissions are ordered with and without a treatment plan         *)
(* template, which may require counselling before the admission               *)

NextPlan ==
  \/ \E p \in Patients, t \in Templates \cup {""} :
       counselling < MaxCounselling /\ Schedule(OrderPlan(p, t))
  \/ \E s \in StayIds, u \in Units : Admit(s, u, now, NoneVal, NoEnv)
  \/ \E s \in StayIds : Cancel(s, "reason")

SpecPlan == Init /\ [][NextPlan]_vars

----------------------------------------------------------------------------
(* SpecAtomic: the requests on one stay with the inputs that make them fail:  *)
(* the first instant and day of the clock, given when the stored ones are     *)
(* later, and outstanding nursing tasks                                       *)

NextAtomic ==
  \/ stay[1].status = "None" /\ Schedule(OrderFor("P1"))
  \/ \E u \in Units, ed \in {NoneVal, 0} : Admit(1, u, now, ed, NoEnv)
  \/ \E u \in Units, lf \in Units \cup {NoUnit} :
       RowsBelow(1, MaxRows) /\ Transfer(1, u, 0, lf, FALSE)
  \/ \E lf \in Units : Transfer(1, NoUnit, 0, lf, FALSE)
  \/ \E dd \in {NoneVal, 0} : ScheduleDischarge(DischargeOrderFor("P1", dd))
  \/ \E env \in NursingEnvs : Discharge(1, env)
  \/ Cancel(1, "reason")
  \/ Tick

SpecAtomic == Init /\ [][NextAtomic]_vars

----------------------------------------------------------------------------
(* SpecBill: one stay, its occupancy, the billing of it and the invoicing of  *)
(* its line items while the clock runs                                        *)

NextBill ==
  \/ stay[1].status = "None" /\ Schedule(OrderFor("P1"))
  \/ \E u \in Units : Admit(1, u, now, NoneVal, NoEnv)
  \/ \E u \in Units \cup {NoUnit}, lf \in Units \cup {NoUnit} :
       RowsBelow(1, MaxMoves) /\ Transfer(1, u, now, lf, FALSE)
  \/ ScheduleDischarge(DischargeOrderFor("P1", NoneVal))
  \/ \E rp \in RowChoices(stay[1]), pick \in ItemChoices(stay[1]) :
       Len(stay[1].items) < MaxItems /\ ComputeBilling(1, rp, pick)
  \/ \E i \in 1..MaxItems : InvoiceItem(1, i)
  \/ TickUpTo(MaxBillTime)

SpecBill == Init /\ [][NextBill]_vars

----------------------------------------------------------------------------
(* SpecItems: one stay, admitted once and moved with a leave, its line items  *)
(* billed and invoiced while the clock runs                                   *)

NextItems ==
  \/ stay[1].status = "None" /\ Schedule(OrderFor("P1"))
  \/ \E u \in Units :
       stay[1].status = "Admission Scheduled" /\ Admit(1, u, now, NoneVal, NoEnv)
  \/ \E u \in Units, lf \in Units :
       /\ RowsBelow(1, MaxMoves) /\ AlreadyOn(stay[1], lf)
       /\ Transfer(1, u, now, lf, FALSE)
  \/ \E rp \in RowChoices(stay[1]), pick \in ItemChoices(stay[1]) :
       Len(stay[1].items) < MaxItems /\ ComputeBilling(1, rp, pick)
  \/ \E i \in 1..MaxItems : InvoiceItem(1, i)
  \/ Tick

SpecItems == Init /\ [][NextItems]_vars

----------------------------------------------------------------------------
(* SpecPending: one stay on billable and other units, its rows and line items *)
(* invoiced one by one, and discharges under either billing policy            *)

\* What a discharge reads: the billing policy and the unbilled documents
PendingEnvs ==
  { [NoEnv EXCEPT !.autogen = a, !.docs = docs] :
      a \in BOOLEAN, docs \in DocSets }

NextPending ==
  \/ stay[1].status = "None" /\ Schedule(OrderFor("P1"))
  \/ \E u \in Units :
       stay[1].status = "Admission Scheduled" /\ Admit(1, u, now, NoneVal, NoEnv)
  \/ \E u \in Units, lf \in Units :
       /\ RowsBelow(1, MaxMoves) /\ AlreadyOn(stay[1], lf)
       /\ Transfer(1, u, now, lf, FALSE)
  \/ \E rp \in RowChoices(stay[1]), pick \in ItemChoices(stay[1]) :
       Len(stay[1].items) < MaxItems /\ ComputeBilling(1, rp, pick)
  \/ \E i \in 1..MaxItems : InvoiceItem(1, i)
  \/ \E i \in 1..MaxMoves : InvoiceOccupancy(1, i)
  \/ ScheduleDischarge(DischargeOrderFor("P1", NoneVal))
  \/ \E env \in PendingEnvs : Discharge(1, env)

SpecPending == Init /\ [][NextPending]_vars

----------------------------------------------------------------------------
(* SpecDelta: one stay that keeps the unit it was admitted to, billed again   *)
(* and again while the clock runs and its line items are invoiced             *)

NextDelta ==
  \/ stay[1].status = "None" /\ Schedule(OrderFor("P1"))
  \/ \E u \in Units :
       stay[1].status = "Admission Scheduled" /\ Admit(1, u, now, NoneVal, NoEnv)
  \/ \E rp \in RowChoices(stay[1]), pick \in ItemChoices(stay[1]) :
       Len(stay[1].items) < MaxItems /\ ComputeBilling(1, rp, pick)
  \/ \E i \in 1..MaxItems : InvoiceItem(1, i)
  \/ TickUpTo(MaxBillTime)

SpecDelta == Init /\ [][NextDelta]_vars

----------------------------------------------------------------------------
(* SpecSweep: the stays of two patients, admitted and moved, the scheduled    *)
(* job that bills every open stay, and one step of the clock                  *)

\* The rows the database may return while each stay of S is billed
RECURSIVE ChoicesFor(_)
ChoicesFor(S) ==
  IF S = {} THEN { <<>> }
  ELSE LET s == CHOOSE n \in S : TRUE IN
         { g @@ (s :> [rp |-> rp, pick |-> pick]) :
             g \in ChoicesFor(S \ {s}),
             rp \in RowChoices(stay[s]), pick \in ItemChoices(stay[s]) }

\* Healthcare Settings.automatically_generate_billable off and on
SweepEnvs == { NoEnv, [NoEnv EXCEPT !.autogen = TRUE] }

NextSweep ==
  \/ \E p \in Patients : Schedule(OrderFor(p))
  \/ \E s \in StayIds, u \in Units :
       stay[s].status = "Admission Scheduled" /\ Admit(s, u, now, NoneVal, NoEnv)
  \/ \E s \in StayIds, u \in Units :
       RowsBelow(s, MaxMoves) /\ Transfer(s, u, now, NoUnit, FALSE)
  \/ \E env \in SweepEnvs, ch \in ChoicesFor(StayIds) :
       (\A s \in StayIds : Len(stay[s].items) < MaxItems) /\ Sweep(env, ch)
  \/ TickUpTo(1)

SpecSweep == Init /\ [][NextSweep]_vars

----------------------------------------------------------------------------
(* SpecQty: the qty offered for invoicing, for every closed occupancy of a    *)
(* billable unit up to MaxHundredths and every no_of_hours up to MaxUnitHours *)

InitQty ==
  /\ stay = [n \in StayIds |-> BlankStay]
  /\ unit = [u \in Units |-> "Vacant"]
  /\ patient = [p \in Patients |-> NoLink]
  /\ enc = [n \in StayIds |-> NoLink]
  /\ counselling = 0
  /\ now = 0
  /\ last = NoLast
  /\ req = [r \in Requests |-> IdleReq]
  /\ quote \in [hours_occupied : 0..MaxHundredths, no_of_hours : 1..MaxUnitHours,
                 qty : {NoneVal}]

\* lines 255-276: the qty of the occupancy is computed and offered
OfferOccupancy ==
  /\ quote.qty = NoneVal
  /\ quote' = [quote EXCEPT !.qty = qty_to_invoice(quote.hours_occupied, quote.no_of_hours)]
  /\ UNCHANGED <<stay, unit, patient, enc, counselling, now, last, req>>

NextQty == OfferOccupancy

SpecQty == InitQty /\ [][NextQty]_vars

----------------------------------------------------------------------------
(* SpecConc: admission requests of one patient that overlap.  A request runs  *)
(* validate()'s query when it saves and writes afterwards; what another       *)
(* request has written in between is not read again.                          *)

\* lines 487-496 and 513-522: the document admit_patient is about to save
AdmitDoc(d, name, service_unit, check_in, expected_discharge) ==
  LET doc == [ d.stay[name] EXCEPT !.admitted_datetime = check_in,
                                   !.status = "Admitted",
                                   !.expected_discharge = expected_discharge,
                                   !.inpatient_occupancies = <<>> ]
  IN [doc EXCEPT !.inpatient_occupancies =
        TransferRows(<<>>, service_unit, check_in, FALSE)]

Fails(op, name, pat, err) ==
  /\ last' = [op |-> op, stay |-> name, patient |-> pat, err |-> err, env |-> NoEnv,
              args |-> NoArgs, logged |-> {}]
  /\ UNCHANGED <<stay, unit, patient, enc, counselling, now, req, quote>>

\* create_inpatient_record up to and including validate() in save()
BeginSchedule(r, order) ==
  /\ req[r].pc = "idle"
  /\ FreeIds(DB) # {}
  /\ LET doc == NewStay(order)
         err == validate(DB, NewName(DB), doc)
     IN IF err # "OK" THEN Fails("Schedule", 0, order.patient, err)
        ELSE /\ req' = [req EXCEPT ![r] =
                         [pc |-> "validated", op |-> "Schedule", stay |-> 0,
                          unit |-> NoUnit, doc |-> doc]]
             /\ UNCHANGED <<stay, unit, patient, enc, counselling, now, last, quote>>

\* the insert and after_insert
CommitSchedule(r) ==
  /\ req[r].pc = "validated" /\ req[r].op = "Schedule"
  /\ FreeIds(DB) # {}
  /\ LET name == NewName(DB)
         d == after_insert(Store(DB, name, req[r].doc), name, req[r].doc)
     IN /\ stay' = d.stay /\ unit' = d.unit /\ patient' = d.patient /\ enc' = d.enc
        /\ last' = [op |-> "Schedule", stay |-> name, patient |-> req[r].doc.patient,
                    err |-> "OK", env |-> NoEnv, args |-> NoArgs, logged |-> {}]
  /\ req' = [req EXCEPT ![r] = IdleReq]
  /\ UNCHANGED <<counselling, now, quote>>

\* admit_patient up to and including validate() in transfer_patient's save()
BeginAdmit(r, s, service_unit) ==
  /\ req[r].pc = "idle"
  /\ Exists(DB, s)
  /\ LET doc == AdmitDoc(DB, s, service_unit, now, NoneVal)
         err == validate(DB, s, doc)
     IN IF err # "OK" THEN Fails("Admit", s, stay[s].patient, err)
        ELSE /\ req' = [req EXCEPT ![r] =
                         [pc |-> "validated", op |-> "Admit", stay |-> s,
                          unit |-> service_unit, doc |-> doc]]
             /\ UNCHANGED <<stay, unit, patient, enc, counselling, now, last, quote>>

\* the writes of save(), of line 526 and of lines 499-503
CommitAdmit(r) ==
  /\ req[r].pc = "validated" /\ req[r].op = "Admit"
  /\ LET s == req[r].stay
         d == Store(DB, s, req[r].doc)
     IN /\ stay' = d.stay
        /\ unit' = [d.unit EXCEPT ![req[r].unit] = "Occupied"]
        /\ patient' = [d.patient EXCEPT ![req[r].doc.patient] =
                         [inpatient_record |-> s, inpatient_status |-> "Admitted"]]
        /\ last' = [op |-> "Admit", stay |-> s, patient |-> req[r].doc.patient,
                    err |-> "OK", env |-> NoEnv, args |-> NoArgs, logged |-> {}]
  /\ req' = [req EXCEPT ![r] = IdleReq]
  /\ UNCHANGED <<enc, counselling, now, quote>>

NextConc ==
  \/ \E r \in Requests : BeginSchedule(r, OrderFor("P1"))
  \/ \E r \in Requests : CommitSchedule(r)
  \/ \E r \in Requests, s \in StayIds : BeginAdmit(r, s, "A")
  \/ \E r \in Requests : CommitAdmit(r)
  \/ ScheduleDischarge(DischargeOrderFor("P1", NoneVal))
  \/ \E s \in StayIds : Discharge(s, NoEnv)
  \/ \E s \in StayIds : Cancel(s, "reason")

SpecConc == Init /\ [][NextConc]_vars

----------------------------------------------------------------------------
(* SpecRace: the billing job loads a stay, and saves it after other requests  *)
(* on the stay have committed.  Document.save() of a document that another    *)
(* request has saved since it was loaded raises TimestampMismatchError; the   *)
(* stored document is told from the loaded one by its content here.          *)

\* lines 677-682: frappe.get_doc in the job, for a stay the filter admits
BeginSweep(r, s) ==
  /\ req[r].pc = "idle"
  /\ s \in OpenStays(DB)
  /\ req' = [req EXCEPT ![r] =
               [pc |-> "loaded", op |-> "Sweep", stay |-> s, unit |-> NoUnit,
                doc |-> stay[s]]]
  /\ UNCHANGED <<stay, unit, patient, enc, counselling, now, last, quote>>

\* The document the request r holds is not the stored one any more
Stale(r) == req[r].doc # stay[req[r].stay]

\* lines 114-190 for the loaded document: the computation and self.save(),
\* whose exception is caught and logged; nothing is tried again
CommitSweep(r, rp, pick) ==
  /\ req[r].pc = "loaded" /\ req[r].op = "Sweep"
  /\ LET s == req[r].stay
         res == IF Stale(r) THEN Err("Timestamp", DB)
                ELSE add_service_unit_rent_to_billable_items(DB, s, rp, pick)
     IN /\ Commit(res.db)
        /\ last' = [op |-> "Sweep", stay |-> s, patient |-> stay[s].patient,
                    err |-> res.err, env |-> [NoEnv EXCEPT !.autogen = TRUE],
                    args |-> NoArgs,
                    logged |-> IF res.err # "OK" THEN {s} ELSE {}]
  /\ req' = [req EXCEPT ![r] = IdleReq]
  /\ UNCHANGED <<now, quote>>

\* The background worker that runs the job
Sweeper == CHOOSE r \in Requests : TRUE

NextRace ==
  \/ stay[1].status = "None" /\ Schedule(OrderFor("P1"))
  \/ \E u \in Units :
       stay[1].status = "Admission Scheduled" /\ Admit(1, u, now, NoneVal, NoEnv)
  \/ \E u \in Units :
       RowsBelow(1, MaxMoves) /\ Transfer(1, u, now, NoUnit, FALSE)
  \/ ScheduleDischarge(DischargeOrderFor("P1", NoneVal))
  \/ Discharge(1, NoEnv)
  \/ BeginSweep(Sweeper, 1)
  \/ \E rp \in RowChoices(stay[1]), pick \in ItemChoices(stay[1]) :
       Len(stay[1].items) < MaxItems /\ CommitSweep(Sweeper, rp, pick)
  \/ TickUpTo(1)

SpecRace == Init /\ [][NextRace]_vars

----------------------------------------------------------------------------
(* Properties *)

ActiveStays(p) ==
  { s \in StayIds : stay[s].patient = p /\ IsActive(stay[s].status) }

\* the open rows of a stay that are not procedure transfers
Primary(s) ==
  { i \in DOMAIN stay[s].inpatient_occupancies :
      /\ stay[s].inpatient_occupancies[i].left = 0
      /\ stay[s].inpatient_occupancies[i].transferred_for_procedure = 0 }

HoldsUnit(s, u) ==
  \E i \in Primary(s) : stay[s].inpatient_occupancies[i].service_unit = u

DbUnchanged == UNCHANGED <<stay, unit, patient, enc, counselling>>

\* C1: under requests that run one after the other, no patient ever has two
\* stays that are Admitted or Admission Scheduled, and a Schedule for a patient
\* who has an Admitted stay ends with the duplicate error and inserts nothing.
C1_OneActiveStayPerPatient ==
  /\ [](\A p \in Patients : Cardinality(ActiveStays(p)) <= 1)
  /\ [][ \A p \in Patients :
           ( /\ last'.op = "Schedule" /\ last'.patient = p
             /\ \E s \in StayIds : stay[s].patient = p /\ stay[s].status = "Admitted" )
           => (last'.err = "Duplicate" /\ DbUnchanged) ]_vars

C1_Witness ==
  /\ last.op = "Schedule" /\ last.err = "Duplicate"
  /\ \E s \in StayIds : stay[s].patient = last.patient /\ stay[s].status = "Admitted"
  /\ \E s \in StayIds : stay[s].status = "None"

\* C2: when admission requests of one patient overlap, the patient still never
\* has two stays that are Admitted or Admission Scheduled.
C2_NoDuplicateUnderOverlap ==
  \A p \in Patients : ~ \E s1, s2 \in ActiveStays(p) : s1 # s2

\* C3: every stay has at most one open row that is not a procedure transfer.
C3_OnePrimaryRow == \A s \in StayIds : Cardinality(Primary(s)) <= 1

C3_Witness ==
  \E s \in StayIds :
    LET rows == stay[s].inpatient_occupancies IN
      /\ Len(rows) = 3
      /\ Cardinality(Primary(s)) = 1
      /\ \E i \in DOMAIN rows : rows[i].left = 1 /\ rows[i].transferred_for_procedure = 0
      /\ \E i \in DOMAIN rows : rows[i].left = 0 /\ rows[i].transferred_for_procedure = 1

\* C4: no service unit is held by two stays at once.
C4_OneOccupantPerUnit ==
  \A u \in Units : \A s1, s2 \in StayIds :
    (HoldsUnit(s1, u) /\ HoldsUnit(s2, u)) => s1 = s2

\* C5: a unit is Occupied exactly when some stay holds an open row on it that
\* is not a procedure transfer, and Vacant otherwise.
C5_UnitStatusIsProjection ==
  \A u \in Units : (unit[u] = "Occupied") <=> (\E s \in StayIds : HoldsUnit(s, u))

\* C6: a stay's status changes along the four edges of the lifecycle only.
LifecycleEdges ==
  { <<"Admission Scheduled", "Admitted">>,
    <<"Admitted", "Discharge Scheduled">>,
    <<"Discharge Scheduled", "Discharged">>,
    <<"Admission Scheduled", "Cancelled">> }

C6_OnlyLifecycleEdges ==
  [][ \A s \in StayIds :
        (stay[s].status # "None" /\ stay'[s].status # stay[s].status)
        => <<stay[s].status, stay'[s].status>> \in LifecycleEdges ]_vars

\* C7: a stay that is Discharged or Cancelled keeps that status for ever.
C7_TerminalIsTerminal ==
  [][ \A s \in StayIds :
        IsTerminal(stay[s].status) => stay'[s].status = stay[s].status ]_vars

\* What the stay owes when Discharge is called with what the request reads
Pending(s, env) == get_pending_invoices(stay[s], env)

BecomesDischarged(s) ==
  stay[s].status # "Discharged" /\ stay'[s].status = "Discharged"

\* C8 as stated: a stay becomes Discharged only if no mandatory nursing task is
\* outstanding, nothing is pending or the bypass is on, and no service request
\* is incomplete or that check is off.
C8_DischargedOnlyIfAllClear ==
  [][ \A s \in StayIds : BecomesDischarged(s) =>
        /\ ~last'.env.tasks
        /\ Pending(s, last'.env) = {} \/ last'.env.bypass
        /\ ~last'.env.srs \/ ~last'.env.srchk ]_vars

\* C8 as amended: the same, where an outstanding mandatory nursing task blocks
\* only while validate_nursing_checklists is on.
C8_DischargedOnlyIfChecksPass ==
  [][ \A s \in StayIds : BecomesDischarged(s) =>
        /\ ~last'.env.tasks \/ ~last'.env.vn
        /\ Pending(s, last'.env) = {} \/ last'.env.bypass
        /\ ~last'.env.srs \/ ~last'.env.srchk ]_vars

C8_Witness ==
  /\ last.op = "Discharge" /\ last.err = "OK"
  /\ stay[1].status = "Discharged"
  /\ last.env.tasks /\ ~last.env.vn
  /\ last.env.bypass /\ Pending(1, last.env) # {}

DischargeOf(s) == last'.op = "Discharge" /\ last'.stay = s

DischargeErrors == {"Nursing", "Billing", "ServiceRequest"}

\* C9 as stated: a Discharge with an outstanding mandatory nursing task, with
\* pending invoices and no bypass, or with an incomplete service request under
\* the check, fails and changes nothing.
C9_FailedPreconditionChangesNothing ==
  [][ \A s \in StayIds :
        ( /\ DischargeOf(s)
          /\ \/ last'.env.tasks
             \/ Pending(s, last'.env) # {} /\ ~last'.env.bypass
             \/ last'.env.srs /\ last'.env.srchk )
        => (last'.err \in DischargeErrors /\ DbUnchanged) ]_vars

\* C9 as amended: the same, where the nursing precondition fails only while
\* validate_nursing_checklists is on.
C9_FailedCheckChangesNothing ==
  [][ \A s \in StayIds :
        ( /\ DischargeOf(s)
          /\ \/ last'.env.tasks /\ last'.env.vn
             \/ Pending(s, last'.env) # {} /\ ~last'.env.bypass
             \/ last'.env.srs /\ last'.env.srchk )
        => (last'.err \in DischargeErrors /\ DbUnchanged) ]_vars

C9_Witness ==
  /\ last.op = "Discharge" /\ last.err = "Nursing"
  /\ stay[1].status = "Discharge Scheduled"
  /\ stay[1].discharge_datetime = NoneVal

\* C10 as stated: with an outstanding nursing task and something pending the
\* failure is the nursing one; with no such task, something pending and an
\* incomplete service request it is the billing one.
C10_FirstFailureReported ==
  [][ \A s \in StayIds : DischargeOf(s) =>
        /\ (last'.env.tasks /\ Pending(s, last'.env) # {}) => last'.err = "Nursing"
        /\ (~last'.env.tasks /\ Pending(s, last'.env) # {} /\ last'.env.srs)
             => last'.err = "Billing" ]_vars

\* C10 as amended: the checks run in the order nursing, billing, service
\* requests and the first that fails is reported, a check that its setting
\* turns off never failing.
C10_FirstFailingCheckReported ==
  [][ \A s \in StayIds : DischargeOf(s) =>
        LET e == last'.env
            nursing == e.vn /\ e.tasks
            billing == ~e.bypass /\ Pending(s, e) # {}
            requests == e.srchk /\ e.srs
        IN /\ nursing => last'.err = "Nursing"
           /\ (~nursing /\ billing) => last'.err = "Billing"
           /\ (~nursing /\ ~billing /\ requests) => last'.err = "ServiceRequest" ]_vars

C10_Witness ==
  /\ last.op = "Discharge" /\ last.err = "Nursing"
  /\ Pending(1, last.env) # {} /\ ~last.env.bypass
  /\ last.env.srs /\ last.env.srchk

\* The request that has just ended was a successful one of this kind
Did(op) == last.op = op /\ last.err = "OK"

\* C11: a plain Transfer to unit b (no leave_from, not for a procedure) right
\* after an Admit to another unit a leaves the row of a closed with check_out
\* the transfer's time, the row of b open, a Vacant and b Occupied.
C11_TransferClosesOldUnit ==
  [][ \A a, b \in Units :
        ( /\ a # b
          /\ Did("Admit") /\ last.args.service_unit = a
          /\ last'.op = "Transfer" /\ last'.err = "OK"
          /\ last'.args.service_unit = b
          /\ last'.args.leave_from = NoUnit /\ ~last'.args.txred )
        => LET rows == stay'[last'.stay].inpatient_occupancies IN
             /\ Len(rows) = 2
             /\ rows[1].service_unit = a /\ rows[1].left = 1
             /\ rows[1].check_out = last'.args.check_in
             /\ rows[2].service_unit = b /\ rows[2].left = 0
             /\ unit'[a] = "Vacant" /\ unit'[b] = "Occupied" ]_vars

\* A Transfer to a unit, with no leave_from, has just been called on stay s
TransferTo(s, u) ==
  /\ last'.op = "Transfer" /\ last'.stay = s
  /\ last'.args.service_unit = u /\ last'.args.leave_from = NoUnit

\* C12: a Transfer with no leave_from to a unit on which the stay has an open
\* row succeeds and changes no row, no unit and nothing else; and after any
\* successful Transfer to a unit the stay has an open row on it, so that the
\* same call made again changes nothing.
C12_TransferToCurrentUnitIsNoOp ==
  [][ \A s \in StayIds, u \in Units :
        /\ (TransferTo(s, u) /\ AlreadyOn(stay[s], u))
             => (last'.err = "OK" /\ DbUnchanged)
        /\ (TransferTo(s, u) /\ last'.err = "OK") => AlreadyOn(stay'[s], u) ]_vars

C12_Witness ==
  /\ Did("Transfer") /\ last.stay = 1
  /\ last.args.leave_from = NoUnit
  /\ Len(stay[1].inpatient_occupancies) = 1
  /\ stay[1].inpatient_occupancies[1].service_unit = last.args.service_unit
  /\ stay[1].inpatient_occupancies[1].left = 0
  /\ stay[1].inpatient_occupancies[1].check_in < last.args.check_in

\* The open rows of stay s on unit u that were checked in after instant t
OpenedAfter(s, u, t) ==
  { i \in OpenOn(stay[s].inpatient_occupancies, u) :
      stay[s].inpatient_occupancies[i].check_in > t }

\* C13: no stored row has a check_out before its check_in, and a Transfer that
\* leaves a unit at an instant before the check_in of an open row on that unit
\* fails and stores nothing.
C13_CheckOutNotBeforeCheckIn ==
  /\ [](\A s \in StayIds : \A i \in DOMAIN stay[s].inpatient_occupancies :
          LET row == stay[s].inpatient_occupancies[i] IN
            row.check_out # NoneVal => row.check_out >= row.check_in)
  /\ [][ \A s \in StayIds :
           ( /\ last'.op = "Transfer" /\ last'.stay = s
             /\ last'.args.leave_from # NoUnit
             /\ OpenedAfter(s, last'.args.leave_from, last'.args.check_in) # {} )
           => (last'.err = "CheckOut" /\ DbUnchanged) ]_vars

C13_Witness ==
  /\ last.op = "Transfer" /\ last.err = "CheckOut" /\ last.stay = 1
  /\ OpenedAfter(1, last.args.leave_from, last.args.check_in) # {}
  /\ unit[last.args.leave_from] = "Occupied"

\* The invoiced line items of stay s for an item code
InvoicedOf(s, item) ==
  { i \in ItemsOf(stay[s], item) : stay[s].items[i].invoiced = 1 }

\* The line items of stay s that the step has appended
Appended(s) == { i \in DOMAIN stay'[s].items : i > Len(stay[s].items) }

\* C14: a billing run changes the quantity of no invoiced line item; for an
\* item with one invoiced line item, a successful run whose computed quantity
\* is above the invoiced quantity appends one line item of the item, with the
\* difference as its quantity, and a run whose computed quantity is not above
\* it appends no line item of the item.
C14_InvoicedKeptDeltaAppended ==
  [][ \A s \in StayIds :
        (last'.op = "ComputeBilling" /\ last'.stay = s) =>
          /\ \A i \in DOMAIN stay[s].items :
               stay[s].items[i].invoiced = 1 =>
                 /\ i \in DOMAIN stay'[s].items
                 /\ stay'[s].items[i].quantity = stay[s].items[i].quantity
          /\ \A rp \in RowChoices(stay[s]), pick \in ItemChoices(stay[s]) :
               (ComputeBilling(s, rp, pick) /\ last'.err = "OK") =>
                 \A k \in DOMAIN ItemCodes :
                   (rp[k] # 0 /\ Cardinality(InvoicedOf(s, ItemCodes[k])) = 1) =>
                     LET quantity == Quantity(Rows(stay[s]), ItemCodes[k], rp[k])
                         invoiced == CHOOSE i \in InvoicedOf(s, ItemCodes[k]) : TRUE
                         delta == quantity - stay[s].items[invoiced].quantity
                         new == { i \in Appended(s) :
                                    stay'[s].items[i].item_code = ItemCodes[k] }
                     IN IF delta > 0
                        THEN /\ Cardinality(new) = 1
                             /\ \A i \in new : stay'[s].items[i].quantity = delta
                        ELSE new = {} ]_vars

\* The rounding as specified, in halves, where it is specified: hours > 0 and
\* a fractional part above 0
Offered == quote.qty # NoneVal /\ quote.hours_occupied > 0

WholeUnits == quote.hours_occupied \div (100 * quote.no_of_hours)

\* twice the fractional part of hours_occupied / no_of_hours, in hundredths of a unit
TwiceFrac == 2 * (quote.hours_occupied % (100 * quote.no_of_hours))

\* C15: for hours_occupied > 0 the qty is floor + 1 when the fractional part of
\* hours_occupied / no_of_hours is above 0.5, floor + 0.5 when it is above 0
\* and at most 0.5, and never below 0.5.
C15_RoundingRule ==
  Offered =>
    /\ TwiceFrac > 100 * quote.no_of_hours => quote.qty = 2 * (WholeUnits + 1)
    /\ (TwiceFrac > 0 /\ TwiceFrac <= 100 * quote.no_of_hours)
          => quote.qty = 2 * WholeUnits + 1
    /\ quote.qty >= 1

\* hours_occupied / no_of_hours = tenths / 10
ActualIs(tenths) == 10 * quote.hours_occupied = tenths * 100 * quote.no_of_hours

\* C16: 2.3 units give 2.5, 2.6 units give 3.0 and 0.2 units give 0.5.
C16_RoundingExamples ==
  Offered =>
    /\ ActualIs(23) => quote.qty = 5
    /\ ActualIs(26) => quote.qty = 6
    /\ ActualIs(2) => quote.qty = 1

C16_Witness ==
  /\ Offered /\ ActualIs(23) /\ quote.qty = 5
  /\ quote.no_of_hours = 2

AdmitOf(s) == last'.op = "Admit" /\ last'.stay = s

\* C18 as stated: an Admit while a mandatory nursing task of the stay is
\* outstanding fails with the nursing error and changes nothing.
C18_AdmitBlockedByNursingTask ==
  [][ \A s \in StayIds :
        (AdmitOf(s) /\ last'.env.tasks)
        => (last'.err = "Nursing" /\ DbUnchanged) ]_vars

\* C18 as amended: the same, while validate_nursing_checklists is on.
C18_AdmitBlockedWhenValidated ==
  [][ \A s \in StayIds :
        (AdmitOf(s) /\ last'.env.tasks /\ last'.env.vn)
        => (last'.err = "Nursing" /\ DbUnchanged) ]_vars

C18_Witness ==
  /\ last.op = "Admit" /\ last.err = "Nursing" /\ last.stay = 1
  /\ stay[1].status = "Admission Scheduled"
  /\ stay[1].admitted_datetime = NoneVal
  /\ stay[1].inpatient_occupancies = <<>>
  /\ unit[last.args.service_unit] = "Vacant"

\* C19: after a successful Admit(stay, U, t) the stay is Admitted with
\* admitted_datetime = t, its occupancy list is exactly one row (U, check_in t,
\* not left, not for a procedure) whatever it held before, U is Occupied and
\* the patient is Admitted under this stay.
C19_AdmitResult ==
  [][ \A s \in StayIds :
        (AdmitOf(s) /\ last'.err = "OK") =>
          LET U == last'.args.service_unit
              t == last'.args.check_in
              rows == stay'[s].inpatient_occupancies
          IN /\ stay'[s].status = "Admitted"
             /\ stay'[s].admitted_datetime = t
             /\ Len(rows) = 1
             /\ rows[1].service_unit = U
             /\ rows[1].check_in = t
             /\ rows[1].check_out = NoneVal
             /\ rows[1].left = 0
             /\ rows[1].transferred_for_procedure = 0
             /\ unit'[U] = "Occupied"
             /\ patient'[stay[s].patient] =
                  [inpatient_record |-> s, inpatient_status |-> "Admitted"] ]_vars

\* a second admission: the unit of the first one is still Occupied, its row gone
C19_Witness ==
  /\ Did("Admit")
  /\ stay[last.stay].status = "Admitted"
  /\ Len(stay[last.stay].inpatient_occupancies) = 1
  /\ stay[last.stay].inpatient_occupancies[1].service_unit = last.args.service_unit
  /\ stay[last.stay].admitted_datetime = last.args.check_in
  /\ last.args.check_in # now
  /\ \E u \in Units \ {last.args.service_unit} : unit[u] = "Occupied"

\* C20: after a successful ScheduleDischarge the stay is Discharge Scheduled,
\* and every row that was open (left not set), rows of a procedure included,
\* has left set and check_out the time of the call, its unit Vacant.
C20_ScheduleDischargeResult ==
  [][ \A s \in StayIds :
        (last'.op = "ScheduleDischarge" /\ last'.stay = s /\ last'.err = "OK") =>
          LET before == stay[s].inpatient_occupancies
              after == stay'[s].inpatient_occupancies
          IN /\ stay'[s].status = "Discharge Scheduled"
             /\ Len(after) = Len(before)
             /\ \A i \in DOMAIN before :
                  IF before[i].left # 1
                  THEN /\ after[i].left = 1
                       /\ after[i].check_out = now
                       /\ after[i].service_unit = before[i].service_unit
                       /\ unit'[before[i].service_unit] = "Vacant"
                  ELSE after[i] = before[i] ]_vars

\* a discharge scheduled later than the admission, which closed a row of a
\* procedure and a plain row
C20_Witness ==
  /\ Did("ScheduleDischarge")
  /\ last.stay = 1
  /\ stay[1].status = "Discharge Scheduled"
  /\ now > stay[1].admitted_datetime
  /\ \E i, j \in DOMAIN stay[1].inpatient_occupancies :
       LET rows == stay[1].inpatient_occupancies IN
         /\ rows[i].transferred_for_procedure = 1
         /\ rows[j].transferred_for_procedure = 0
         /\ rows[i].service_unit # rows[j].service_unit
         /\ \A k \in {i, j} : /\ rows[k].left = 1
                               /\ rows[k].check_out = now
                               /\ unit[rows[k].service_unit] = "Vacant"

\* C21: a ScheduleDischarge for a patient with no linked stay fails (it does
\* not return successfully having done nothing).
C21_DischargeOrderWithoutStayFails ==
  [][ (last'.op = "ScheduleDischarge" /\ LinkedStay(DB, last'.patient) = 0)
      => last'.err # "OK" ]_vars

\* The stay s as the database holds it has its dates in order
DatesInOrder(s) ==
  /\ stay[s].expected_discharge # NoneVal
       => stay[s].expected_discharge >= stay[s].scheduled_date
  /\ stay[s].discharge_ordered_date # NoneVal
       => stay[s].discharge_ordered_date >= stay[s].scheduled_date

\* C22: no stored stay has expected_discharge or discharge_ordered_date before
\* its scheduled_date; an Admit with an earlier expected_discharge and a
\* ScheduleDischarge with an earlier discharge_ordered_date fail on the dates
\* and store nothing.
C22_DatesNotBeforeScheduled ==
  /\ [](\A s \in StayIds : Exists(DB, s) => DatesInOrder(s))
  /\ [][ \A s \in StayIds, u \in Units, ed \in Times :
           (Admit(s, u, now, ed, NoEnv) /\ ed < stay[s].scheduled_date)
           => (last'.err = "Dates" /\ DbUnchanged) ]_vars
  /\ [][ \A dd \in Times :
           ( /\ ScheduleDischarge(DischargeOrderFor("P1", dd))
             /\ LinkedStay(DB, "P1") # 0
             /\ dd < stay[LinkedStay(DB, "P1")].scheduled_date )
           => (last'.err = "Dates" /\ DbUnchanged) ]_vars

\* a discharge order dated before the day the admission was scheduled was
\* refused: the stay is still Admitted with its row open and its unit Occupied
C22_Witness ==
  /\ last.op = "ScheduleDischarge" /\ last.err = "Dates" /\ last.stay # 0
  /\ stay[last.stay].scheduled_date > 0
  /\ stay[last.stay].status = "Admitted"
  /\ stay[last.stay].expected_discharge >= stay[last.stay].scheduled_date
  /\ stay[last.stay].discharge_ordered_date = NoneVal
  /\ \E i \in DOMAIN stay[last.stay].inpatient_occupancies :
       /\ stay[last.stay].inpatient_occupancies[i].left = 0
       /\ unit[stay[last.stay].inpatient_occupancies[i].service_unit] = "Occupied"

\* The order names a template that requires counselling before the admission
CounsellingAsked(template) ==
  template # "" /\ treatment_counselling_required_for_ip[template]

\* The k-th child table of the stay holds the rows of the encounter's table,
\* as many and in the same order
SameRows(doc, encounter, k) ==
  LET from == encounter[EncounterTable[ChildTables[k]]]
      rows == doc.children[k]
  IN /\ Len(rows) = Len(from)
     /\ \A i \in DOMAIN from : rows[i].code = from[i].code

\* C23: a successful Schedule (no counselling required) creates exactly one
\* stay, Admission Scheduled, of the order's patient, and each seeded child
\* table of it has as many rows as the encounter's table, in the same order.
C23_ScheduleSeedsChildTables ==
  [][ ( /\ last'.op = "Schedule" /\ last'.err = "OK"
        /\ ~CounsellingAsked(last'.args.treatment_plan_template) ) =>
          \E n \in StayIds :
            /\ stay[n].status = "None"
            /\ stay'[n].status = "Admission Scheduled"
            /\ stay'[n].patient = last'.patient
            /\ \A o \in StayIds \ {n} : stay'[o] = stay[o]
            /\ \A k \in DOMAIN ChildTables :
                 SameRows(stay'[n], last'.args.encounter, k) ]_vars

\* a stay was created beside an earlier one, with two lab test prescriptions
\* in the order 2, 1 and one symptom
C23_Witness ==
  /\ Did("Schedule")
  /\ \E n, o \in StayIds :
       /\ n # o
       /\ stay[o].status # "None"
       /\ stay[n].status = "Admission Scheduled"
       /\ patient[stay[n].patient].inpatient_record = n
       /\ stay[n].children[4] = <<[code |-> 2], [code |-> 1]>>
       /\ Len(stay[n].children[1]) = 1
       /\ \A k \in {2, 3, 5, 6} : stay[n].children[k] = <<>>

\* The records that a step inserts as Inpatient Records
Created == { n \in StayIds : stay[n].status = "None" /\ stay'[n].status # "None" }

\* C24: a Schedule whose treatment plan template requires counselling inserts
\* a counselling record and no stay; any other Schedule inserts no counselling
\* record and, when it succeeds, one stay.
C24_CounsellingOrStay ==
  [][ last'.op = "Schedule" =>
        IF CounsellingAsked(last'.args.treatment_plan_template)
        THEN /\ last'.err = "OK"
             /\ counselling' = counselling + 1
             /\ UNCHANGED <<stay, patient, enc, unit>>
        ELSE /\ counselling' = counselling
             /\ IF last'.err = "OK"
                THEN /\ Cardinality(Created) = 1
                     /\ \A n \in Created : stay'[n].patient = last'.patient
                ELSE Created = {} ]_vars

\* a counselling record was inserted for a patient who has no stay, while
\* another patient's stay was inserted by an order whose template requires none
C24_Witness ==
  /\ Did("Schedule")
  /\ CounsellingAsked(last.args.treatment_plan_template)
  /\ counselling = 1
  /\ patient[last.patient] = NoLink
  /\ \A n \in StayIds : stay[n].patient # last.patient
  /\ \E n \in StayIds : stay[n].status = "Admission Scheduled"

LifecycleOps == {"Admit", "Transfer", "ScheduleDischarge", "Discharge", "Cancel"}

BillingOutcomes(s) ==
  { add_service_unit_rent_to_billable_items(DB, s, rp, pick) :
      rp \in RowChoices(stay[s]), pick \in ItemChoices(stay[s]) }

\* C26: in a sweep, every stay that is Admitted or Discharge Scheduled either
\* has its failure logged and is stored as it was, or is stored as its own
\* billing leaves it, whatever happened to the other stays; no other stay changes.
C26_SweepIsBestEffortPerStay ==
  [][ (last'.op = "Sweep" /\ last'.env.autogen /\ now' = now) =>
        /\ last'.err = "OK"
        /\ last'.logged \subseteq OpenStays(DB)
        /\ \A s \in OpenStays(DB) :
             \E r \in BillingOutcomes(s) :
               IF s \in last'.logged
               THEN r.err # "OK" /\ stay'[s] = stay[s]
               ELSE r.err = "OK" /\ stay'[s] = r.db.stay[s]
        /\ \A s \in StayIds \ OpenStays(DB) : stay'[s] = stay[s] ]_vars

\* a sweep logged the failure of the first stay, which holds no line item, and
\* billed the second one at that instant
C26_Witness ==
  /\ last.op = "Sweep" /\ last.logged = {1}
  /\ stay[1].status = "Admitted" /\ stay[1].items = <<>>
  /\ stay[2].status = "Admitted" /\ stay[2].items # <<>>
  /\ now > 0
  /\ \E i \in DOMAIN stay[2].inpatient_occupancies :
       stay[2].inpatient_occupancies[i].scheduled_billing_time = now
  /\ \A i \in DOMAIN stay[2].items : stay[2].items[i].quantity > 0

\* The request r ends its sweep of stay s in this step
SweepEnds(r, s) ==
  /\ req[r].pc = "loaded" /\ req[r].op = "Sweep" /\ req[r].stay = s
  /\ req'[r].pc = "idle"

\* The occupancy row as a lifecycle request writes it
Entry(row) ==
  [ service_unit |-> row.service_unit, check_in |-> row.check_in,
    check_out |-> row.check_out, left |-> row.left,
    transferred_for_procedure |-> row.transferred_for_procedure ]

\* C27: a sweep that saves a stay on which a Transfer, ScheduleDischarge or
\* Discharge has committed since the sweep loaded it keeps the status and the
\* occupancy rows that request wrote, and tries again: it ends with the stay
\* billed, stored as a billing of the stay as it is now leaves it.
C27_SweepKeepsAndRetries ==
  [][ \A r \in Requests, s \in StayIds :
        (SweepEnds(r, s) /\ Stale(r)) =>
          /\ stay'[s].status = stay[s].status
          /\ Len(stay'[s].inpatient_occupancies) = Len(stay[s].inpatient_occupancies)
          /\ \A i \in DOMAIN stay[s].inpatient_occupancies :
               Entry(stay'[s].inpatient_occupancies[i]) =
                 Entry(stay[s].inpatient_occupancies[i])
          /\ (s \in OpenStays(DB) /\ \E o \in BillingOutcomes(s) : o.err = "OK")
               => \E o \in BillingOutcomes(s) :
                    o.err = "OK" /\ stay'[s] = o.db.stay[s] ]_vars

\* The occupancy rows of stay s before and after the step
RowsOf(s) == stay[s].inpatient_occupancies
RowsAfter(s) == stay'[s].inpatient_occupancies

OnlyForProcedure(doc, service_unit) ==
  /\ AlreadyOn(doc, service_unit)
  /\ \A i \in OpenOn(Rows(doc), service_unit) :
       Rows(doc)[i].transferred_for_procedure = 1

\* C29: a Transfer that is not for a procedure, with no leave_from, to a unit
\* on which the stay's only open rows are procedure rows appends a new primary
\* row for the unit and marks the earlier primary rows left.
C29_TransferOntoProcedureUnitAssigns ==
  [][ \A s \in StayIds, u \in Units :
        (TransferTo(s, u) /\ ~last'.args.txred /\ OnlyForProcedure(stay[s], u)) =>
          LET n == Len(RowsOf(s)) IN
            /\ last'.err = "OK"
            /\ Len(RowsAfter(s)) = n + 1
            /\ RowsAfter(s)[n + 1].service_unit = u
            /\ RowsAfter(s)[n + 1].transferred_for_procedure = 0
            /\ RowsAfter(s)[n + 1].left = 0
            /\ \A i \in Primary(s) : RowsAfter(s)[i].left = 1 ]_vars

\* A Transfer with leave_from = L has just been called on stay s
LeaveFrom(s, L) ==
  /\ now' = now
  /\ last'.op = "Transfer" /\ last'.stay = s /\ last'.args.leave_from = L

\* C30: a successful Transfer with leave_from = L closes every row of the stay
\* that is open on L (left = 1, check_out = the given instant, nothing else)
\* and writes L Vacant, unless the same call then puts the patient on L.  The
\* rows that were not open on L keep their unit and their instants; when the
\* call names no unit to go to they keep every field and no other unit changes
\* status, and when the stay has no open row on L such a call changes no row
\* and no unit.  No Transfer, failed or not, changes the status of the stay.
C30_TransferVacatesLeaveFrom ==
  [][ \A s \in StayIds :
        /\ (now' = now /\ last'.op = "Transfer" /\ last'.stay = s)
             => stay'[s].status = stay[s].status
        /\ \A L \in Units :
             (LeaveFrom(s, L) /\ last'.err = "OK") =>
               LET which == { i \in DOMAIN RowsOf(s) :
                                RowsOf(s)[i].service_unit = L /\ RowsOf(s)[i].left = 0 }
                   to == last'.args.service_unit
               IN /\ \A i \in which :
                       RowsAfter(s)[i] =
                         [RowsOf(s)[i] EXCEPT !.left = 1,
                                              !.check_out = last'.args.check_in]
                  /\ (which # {} /\ to # L) => unit'[L] = "Vacant"
                  /\ \A i \in DOMAIN RowsOf(s) \ which :
                       /\ RowsAfter(s)[i].service_unit = RowsOf(s)[i].service_unit
                       /\ RowsAfter(s)[i].check_in = RowsOf(s)[i].check_in
                       /\ RowsAfter(s)[i].check_out = RowsOf(s)[i].check_out
                  /\ to = NoUnit =>
                       /\ Len(RowsAfter(s)) = Len(RowsOf(s))
                       /\ \A i \in DOMAIN RowsOf(s) \ which :
                            RowsAfter(s)[i] = RowsOf(s)[i]
                       /\ \A u \in Units \ {L} : unit'[u] = unit[u]
                       /\ which = {} => unit' = unit ]_vars

\* the patient has just left the unit of the procedure, later than the
\* check-in there, and is still on the primary unit
C30_Witness ==
  /\ Did("Transfer") /\ last.stay = 1
  /\ last.args.leave_from # NoUnit /\ last.args.service_unit = NoUnit
  /\ Len(stay[1].inpatient_occupancies) = 2
  /\ \E i, j \in DOMAIN stay[1].inpatient_occupancies :
       LET rows == stay[1].inpatient_occupancies IN
         /\ rows[i].service_unit = last.args.leave_from
         /\ rows[i].left = 1 /\ rows[i].check_out = last.args.check_in
         /\ rows[i].check_out > rows[i].check_in
         /\ unit[rows[i].service_unit] = "Vacant"
         /\ rows[j].service_unit # rows[i].service_unit
         /\ rows[j].left = 0 /\ rows[j].check_out = NoneVal
         /\ unit[rows[j].service_unit] = "Occupied"

\* C31: in every reachable state every occupancy row with left = 1 has its
\* check_out set, whichever request closed it.
C31_LeftRowsHaveCheckOut ==
  \A s \in StayIds :
    \A i \in DOMAIN stay[s].inpatient_occupancies :
      stay[s].inpatient_occupancies[i].left = 1
        => stay[s].inpatient_occupancies[i].check_out # NoneVal

\* C32: while no line item of an item is invoiced the stay holds at most one
\* line item of it, and a successful billing run leaves exactly one for every
\* item it bills, with the computed quantity: appended when the stay had none,
\* and otherwise the same line item with its quantity overwritten.
C32_OneLineItemWhileNotInvoiced ==
  [][ \A s \in StayIds :
        /\ \A k \in DOMAIN ItemCodes :
             InvoicedOf(s, ItemCodes[k]) = {}
               => Cardinality(ItemsOf(stay[s], ItemCodes[k])) <= 1
        /\ (now' = now /\ last'.op = "ComputeBilling" /\ last'.stay = s
                        /\ last'.err = "OK") =>
               \A k \in DOMAIN ItemCodes :
                 (last'.args.rp[k] # 0 /\ InvoicedOf(s, ItemCodes[k]) = {}) =>
                   LET quantity == Quantity(Rows(stay[s]), ItemCodes[k],
                                            last'.args.rp[k])
                       before == ItemsOf(stay[s], ItemCodes[k])
                       after == ItemsOf(stay'[s], ItemCodes[k])
                   IN /\ Cardinality(after) = 1
                      /\ \A i \in after : /\ stay'[s].items[i].quantity = quantity
                                          /\ stay'[s].items[i].invoiced = 0
                      /\ IF before = {} THEN after \subseteq Appended(s)
                         ELSE after = before ]_vars

\* the stay was billed at time 0, when the quantity was 0, and again after it
\* moved on: the one line item of the first unit's item has the later quantity
C32_Witness ==
  /\ Did("ComputeBilling") /\ last.stay = 1
  /\ Len(stay[1].inpatient_occupancies) = 2
  /\ stay[1].inpatient_occupancies[1].scheduled_billing_time = 0
  /\ stay[1].inpatient_occupancies[2].scheduled_billing_time = now
  /\ \A k \in DOMAIN ItemCodes :
       /\ Cardinality(ItemsOf(stay[1], ItemCodes[k])) = 1
       /\ \A i \in ItemsOf(stay[1], ItemCodes[k]) :
            stay[1].items[i].quantity > 0 /\ stay[1].items[i].invoiced = 0

\* The minutes an occupancy row has lasted: to its check_out once it is left,
\* to now while it is open
ElapsedMinutes(row) ==
  IF row.left = 1 THEN TIMESTAMPDIFF(row.check_in, row.check_out)
  ELSE TIMESTAMPDIFF(row.check_in, now)

\* The quantity of an item as specified, in QtyDen-ths: the elapsed minutes of
\* its occupancy rows over the unit size, and the minimum at least
ElapsedQuantity(rows, item, type) ==
  LET minutes == SumOver([i \in DOMAIN rows |-> ElapsedMinutes(rows[i])],
                         Group(rows, item))
      unitsize == IF type.uom = "Day" THEN 1440 ELSE 60
      raw == (minutes * QtyDen) \div unitsize
      minimum == type.minimum_billable_qty * QtyDen
  IN IF minimum # 0 /\ raw < minimum THEN minimum ELSE raw

\* C33: a successful billing run of a stay whose left rows all have a check_out
\* stores, for every item it bills that has no invoiced line item, the elapsed
\* minutes of the item's occupancies (check_in to check_out for a row that is
\* left, check_in to now for an open one) over 60 for Hour and 1440 for Day,
\* and the type's minimum billable quantity when that is more.
C33_QuantityIsElapsedOverUnitSize ==
  [][ \A s \in StayIds :
        ( /\ now' = now /\ last'.op = "ComputeBilling" /\ last'.stay = s
          /\ last'.err = "OK"
          /\ \A i \in DOMAIN Rows(stay[s]) :
               Rows(stay[s])[i].left = 1 => Rows(stay[s])[i].check_out # NoneVal ) =>
          \A k \in DOMAIN ItemCodes :
            (last'.args.rp[k] # 0 /\ InvoicedOf(s, ItemCodes[k]) = {}) =>
              \A i \in ItemsOf(stay'[s], ItemCodes[k]) :
                stay'[s].items[i].quantity =
                  ElapsedQuantity(Rows(stay[s]), ItemCodes[k],
                                  UnitType[Rows(stay[s])[last'.args.rp[k]].service_unit])
    ]_vars

\* The stay has an un-invoiced occupancy row on a billable unit
OccupancyUnbilled(doc) ==
  \E i \in DOMAIN doc.inpatient_occupancies :
    /\ doc.inpatient_occupancies[i].invoiced = 0
    /\ doc.inpatient_occupancies[i].service_unit \in Billable

\* The stay has an un-invoiced line item
ItemsUnbilled(doc) == \E i \in DOMAIN doc.items : doc.items[i].invoiced = 0

C35_AmountsAndTotal ==
  \A s \in StayIds :
    /\ \A i \in DOMAIN stay[s].items :
         stay[s].items[i].amount = stay[s].items[i].quantity * stay[s].items[i].rate
    /\ stay[s].total =
         SumOver([i \in DOMAIN stay[s].items |->
                    stay[s].items[i].quantity * stay[s].items[i].rate],
                 DOMAIN stay[s].items)

\* a billing run has just appended a delta line item after the invoiced one
C35_Witness ==
  /\ Did("ComputeBilling") /\ last.stay = 1
  /\ Len(stay[1].items) = 2
  /\ stay[1].items[1].invoiced = 1 /\ stay[1].items[1].quantity > 0
  /\ stay[1].items[2].invoiced = 0 /\ stay[1].items[2].quantity > 0
  /\ stay[1].items[2].item_code = stay[1].items[1].item_code
  /\ stay[1].total > stay[1].items[1].amount
  /\ stay[1].inpatient_occupancies[1].scheduled_billing_time = now

\* The first line item of stay s for an item code (0: none)
FirstOf(s, item) ==
  IF ItemsOf(stay[s], item) = {} THEN 0
  ELSE CHOOSE i \in ItemsOf(stay[s], item) :
         \A j \in ItemsOf(stay[s], item) : i <= j

\* C36: for an item whose first line item is invoiced with a quantity q0 > 0,
\* every successful billing run that computes a quantity q > q0 leaves line
\* items of the item whose quantities add up to q, and a run that computes the
\* quantity the line items already add up to appends no line item of the item.
C36_RepeatedRunsDoNotAccumulate ==
  [][ \A s \in StayIds :
        ( now' = now /\ last'.op = "ComputeBilling" /\ last'.stay = s
          /\ last'.err = "OK" ) =>
          \A k \in DOMAIN ItemCodes :
            LET first == FirstOf(s, ItemCodes[k])
                q == Quantity(Rows(stay[s]), ItemCodes[k], last'.args.rp[k])
                before == SumOver([i \in DOMAIN stay[s].items |-> stay[s].items[i].quantity],
                                  ItemsOf(stay[s], ItemCodes[k]))
                after == SumOver([i \in DOMAIN stay'[s].items |-> stay'[s].items[i].quantity],
                                 ItemsOf(stay'[s], ItemCodes[k]))
            IN ( /\ last'.args.rp[k] # 0 /\ first # 0
                 /\ stay[s].items[first].invoiced = 1
                 /\ stay[s].items[first].quantity > 0
                 /\ q > stay[s].items[first].quantity ) =>
                 /\ after = q
                 /\ before = q =>
                      ItemsOf(stay'[s], ItemCodes[k]) = ItemsOf(stay[s], ItemCodes[k])
    ]_vars

\* C37: in every reachable state a stay that is Discharged or Cancelled has no
\* occupancy row with left = 0.
C37_ClosedStayHoldsNoLocation ==
  \A s \in StayIds :
    IsTerminal(stay[s].status) =>
      \A i \in DOMAIN stay[s].inpatient_occupancies :
        stay[s].inpatient_occupancies[i].left # 0

\* C38: a Discharge of a stay that is Discharge Scheduled, with no outstanding
\* nursing task, nothing pending to bill and no incomplete service request,
\* succeeds and leaves the stay Discharged, whatever other stays the patient has.
C38_ReadyStayCanBeDischarged ==
  [][ \A s \in StayIds :
        ( /\ last'.op = "Discharge" /\ last'.stay = s
          /\ stay[s].status = "Discharge Scheduled"
          /\ DischargeChecks(stay[s], last'.env) = "OK" ) =>
          /\ last'.err = "OK"
          /\ stay'[s].status = "Discharged" ]_vars

\* The stays of a patient that are Admission Scheduled, Admitted or Discharge
\* Scheduled
OpenStaysOf(p) ==
  { s \in StayIds : stay[s].patient = p
                    /\ stay[s].status \in {"Admission Scheduled", "Admitted",
                                           "Discharge Scheduled"} }

\* C39: in every reachable state a patient with a stay that is Admission
\* Scheduled, Admitted or Discharge Scheduled has inpatient_record naming such
\* a stay and inpatient_status equal to that stay's status.
C39_PatientMirrorsOpenStay ==
  \A p \in Patients :
    OpenStaysOf(p) # {} =>
      /\ patient[p].inpatient_record \in OpenStaysOf(p)
      /\ patient[p].inpatient_status = stay[patient[p].inpatient_record].status

\* C40: for hours_occupied > 0 the qty offered for an occupancy is at least
\* hours_occupied / no_of_hours.
C40_NeverUnderBilled ==
  Offered => quote.qty * 100 * quote.no_of_hours >= 2 * quote.hours_occupied

====
